---------------------------- MODULE Spec2Model ----------------------------
(***************************************************************************)
(* apluggy: stacking generator-based context managers.                     *)
(*                                                                         *)
(* The model follows the control flow of                                   *)
(*   - stack_gen_ctxs of src/apluggy/stack/sync.py  (specification Spec),  *)
(*   - stack_gen_ctxs of src/apluggy/gen.py         (specification         *)
(*     SpecGen),                                                           *)
(*   - _cm_gen of src/apluggy/_wrap/with_.py        (specification         *)
(*     SpecWith),                                                          *)
(*   - async_stack_gen_ctxs of src/apluggy/stack/async_.py (specification  *)
(*     SpecAsync),                                                         *)
(*   - patch_aexit of src/apluggy/stack/aexit.py around one asynchronous   *)
(*     context manager (specification SpecPatch),                          *)
(* driven by a caller that uses the stacked context manager in a `with`    *)
(* statement and calls send / throw / close on its `gen` attribute.        *)
(*                                                                         *)
(* Every call the stack makes on a context manager is one step.  The body  *)
(* of a context manager is opaque: each time its generator is resumed it   *)
(* answers with one of "yield", "return", "raise" (a new exception) or,    *)
(* when an exception was thrown in, "reraise" (that same exception).       *)
(* The contextlib wrappers (__enter__, __exit__) and the generator         *)
(* protocol (send, throw, close) are those of CPython 3.11.                *)
(* Exceptions injected by the caller are plain Exception instances         *)
(* (neither StopIteration nor RuntimeError), as in the test-suite.         *)
(***************************************************************************)
EXTENDS Integers, Sequences, FiniteSets, TLC

\* Largest number of context managers handed to the stack.
MaxCtxs == 3
\* Largest number of calls on stack.gen (send, throw, close) by the caller.
MaxCalls == 2
\* Largest number of values the bodies of the contexts yield, all together.
MaxYields == 6
\* stack/aexit.py: largest number of calls the caller makes on the one context.
MaxOps == 4

VARIABLES
    impl,      \* which stack runs: "sync" (stack/sync.py), "gen" (gen.py), "with" (_wrap/with_.py) or "async" (stack/async_.py)
    n,         \* len(ctxs)
    gst,       \* gst[i]: state of ctxs[i].gen: "created", "suspended", "closed"
    nyield,    \* nyield[i]: how many values ctxs[i].gen has yielded
    pc,        \* where the generator of the stack is
    entered,   \* the list `entered`
    ys,        \* the list `ys` (the list being built by the comprehension)
    sent,      \* the variable `sent`
    exc_info,  \* exc_info[1]: the carried exception, or None
    pos,       \* index into the list the running for-loop iterates over
    snap,      \* gen.py: the list `list(reversed(entered))` the round iterates over
    call,      \* the caller's call in progress, "none" when the caller runs
    thrown,    \* the exception that call passed in (None if none)
    where,     \* the caller: "before", "inwith" or "after" the with statement
    result,    \* what the caller's last call gave: [k, v, list]
    ncalls,    \* calls made on stack.gen so far
    log,       \* every operation on a context and every result handed to the caller
    stop_iteration, \* _wrap/with_.py: stop_iteration[i], the return value of ctxs[i] once it has finished on a send
    raised,    \* _wrap/with_.py: the list `raised`
    sequential, \* stack/async_.py: the argument `sequential`
    task,      \* stack/async_.py: task[i], the task asyncio.gather runs for ctxs[i]
    gather,    \* stack/async_.py: the asyncio.gather call awaited or abandoned last
    cur,       \* stack/async_.py: the __aexit__ calls in progress: [ctx, exc, st]
    patch,     \* stack/aexit.py: the `with patch_aexit(ctx)` statement: "before", "active" or "ended"
    ctx_aexit, \* stack/aexit.py: the function ctx.__aexit__ is: "_org_aexit" or "aexit"
    ctx_gen,   \* stack/aexit.py: the object ctx.gen is: "_org_gen" or "AGenWrapForAexit"
    acall      \* stack/aexit.py: the call of the caller in progress on the context

\* The variables of _wrap/with_.py and of stack/async_.py only.
xvars == <<stop_iteration, raised, sequential, task, gather, cur>>

\* The variables of stack/aexit.py only.
pvars == <<patch, ctx_aexit, ctx_gen, acall>>

vars == <<impl, n, gst, nyield, pc, entered, ys, sent, exc_info, pos, snap,
          call, thrown, where, result, ncalls, log, xvars, pvars>>

Ctxs == 1 .. n

-----------------------------------------------------------------------------
(* Values and exceptions.  Identity is structural: two values are the same  *)
(* object iff they are equal.                                              *)

None == [type |-> "None", src |-> 0, k |-> 0]
\* the k-th value sent by the caller
SentVal(k) == [type |-> "sent", src |-> 0, k |-> k]
\* the k-th value yielded by ctxs[i]
YieldVal(i, k) == [type |-> "yield", src |-> i, k |-> k]
\* the exception a context body raises on its own
MockExc(i) == [type |-> "MockException", src |-> i, k |-> 0]
\* the exception the caller injects with its k-th call (throw) or raises in the with block (k = 0)
CallerExc(k) == [type |-> "MockException", src |-> 0, k |-> k]
GeneratorExit == [type |-> "GeneratorExit", src |-> 0, k |-> 0]
StopIteration == [type |-> "StopIteration", src |-> 0, k |-> 0]
\* RuntimeError raised by contextlib or by the generator protocol for ctxs[i] (0: the stack itself)
DidNotYield(i) == [type |-> "RuntimeError: generator didn't yield", src |-> i, k |-> 0]
DidNotStop(i) == [type |-> "RuntimeError: generator didn't stop", src |-> i, k |-> 0]
DidNotStopAfterThrow(i) ==
    [type |-> "RuntimeError: generator didn't stop after throw()", src |-> i, k |-> 0]
IgnoredGeneratorExit(i) ==
    [type |-> "RuntimeError: generator ignored GeneratorExit", src |-> i, k |-> 0]

IsExc(v) == v.type \notin {"None", "sent", "yield", "return"}

\* stack/aexit.py: the caller has no call in progress on the context.
NoCall == [at |-> "none", fn |-> "none", exc |-> None, st |-> "none",
           o |-> [k |-> "none", v |-> None], ops |-> <<>>, org |-> "none"]

\* No asyncio.gather call has been made.
NoGather == [kind |-> "none", first |-> None]


-----------------------------------------------------------------------------
(* The generator protocol and the contextlib wrappers of one context.      *)

\* How many values the bodies of ctxs[1..k] have yielded.
RECURSIVE YieldsOf(_)
YieldsOf(k) == IF k = 0 THEN 0 ELSE nyield[k] + YieldsOf(k - 1)

\* What the body of ctxs[i].gen may answer when it is resumed; a finished
\* generator runs no code, and the bodies have a bounded number of yields.
Responses(i, how) ==
    IF gst[i] = "closed" THEN {"none"}
    ELSE (IF how = "throw" THEN {"return", "raise", "reraise"} ELSE {"return", "raise"})
         \cup (IF YieldsOf(n) < MaxYields THEN {"yield"} ELSE {})

\* ctx.gen.send(arg) / next(ctx.gen) (how = "send") and ctx.gen.throw(arg)
\* (how = "throw") with the body answering r: what the call gives.
\* "return" stands for StopIteration.
GenResume(i, how, arg, r) ==
    IF gst[i] = "closed"
    THEN IF how = "send" THEN [k |-> "return", v |-> None]
                         ELSE [k |-> "raise", v |-> arg]
    ELSE CASE r = "yield"   -> [k |-> "yield", v |-> YieldVal(i, nyield[i] + 1)]
           [] r = "return"  -> [k |-> "return", v |-> None]
           [] r = "raise"   -> [k |-> "raise", v |-> MockExc(i)]
           [] r = "reraise" -> [k |-> "raise", v |-> arg]

\* The state of ctxs[i].gen after a resumption that gave o.
GenStateAfter(i, o) ==
    IF gst[i] = "closed" THEN "closed"
    ELSE IF o.k = "yield" THEN "suspended" ELSE "closed"

NYieldAfter(i, o) ==
    IF gst[i] # "closed" /\ o.k = "yield" THEN nyield[i] + 1 ELSE nyield[i]

\* contextlib._GeneratorContextManager.__enter__: next(self.gen) gave o.
EnterOutcome(i, o) ==
    CASE o.k = "yield"  -> [k |-> "value", v |-> o.v]
      [] o.k = "return" -> [k |-> "raise", v |-> DidNotYield(i)]
      [] o.k = "raise"  -> [k |-> "raise", v |-> o.v]

\* contextlib._GeneratorContextManager.__exit__(typ, value, tb) with
\* value = exc; next(self.gen) (exc is None) or self.gen.throw(exc) gave o.
\* "true": the exception is suppressed; "false": it is not; "raise": __exit__ raises.
ExitOutcome(i, exc, o) ==
    IF exc = None
    THEN CASE o.k = "return" -> [k |-> "false", v |-> None]
           [] o.k = "yield"  -> [k |-> "raise", v |-> DidNotStop(i)]
           [] o.k = "raise"  -> [k |-> "raise", v |-> o.v]
    ELSE CASE o.k = "return" -> [k |-> "true", v |-> None]
           [] o.k = "yield"  -> [k |-> "raise", v |-> DidNotStopAfterThrow(i)]
           [] o.k = "raise"  -> IF o.v = exc THEN [k |-> "false", v |-> None]
                                             ELSE [k |-> "raise", v |-> o.v]

-----------------------------------------------------------------------------
(* The log.                                                                *)

\* An operation of the stack on ctxs[i]: op with argument arg on a generator
\* in state st, which gave out.
CtxEv(op, i, st, arg, out) ==
    [op |-> op, ctx |-> i, st |-> st, arg |-> arg, out |-> out, list |-> <<>>]
\* A call of the caller on the stacked context manager.
CallEv(c, arg) ==
    [op |-> "call", ctx |-> 0, st |-> c, arg |-> arg,
     out |-> [k |-> "none", v |-> None], list |-> <<>>]
\* What a call of the caller gave.
RetEv(c, res) ==
    [op |-> "to caller", ctx |-> 0, st |-> c, arg |-> None,
     out |-> [k |-> res.k, v |-> res.v], list |-> res.list]

\* asyncio.gather, awaited at line 34 (kind "enter") or 48 (kind "send") of
\* stack/async_.py, raises e in the stack.
GatherEv(kind, e) ==
    [op |-> "gather", ctx |-> 0, st |-> kind, arg |-> None,
     out |-> [k |-> "raise", v |-> e], list |-> <<>>]

ResList(L) == [k |-> "list", v |-> None, list |-> L]
ResRaise(e) == [k |-> "raise", v |-> e, list |-> <<>>]
ResOk == [k |-> "ok", v |-> None, list |-> <<>>]
ResNone == [k |-> "none", v |-> None, list |-> <<>>]

-----------------------------------------------------------------------------
(* The generator of the stack seen from the caller: contextlib's wrapper   *)
(* around stack_gen_ctxs (with statement) and the generator protocol       *)
(* (stack.gen.send / throw / close).                                       *)

\* The generator of the stack yields L while call c is in progress.
OnYield(c, L) ==
    CASE c \in {"enter", "send", "throw"} -> ResList(L)
      [] c = "close" -> ResRaise(IgnoredGeneratorExit(0))
      [] c = "exit"  -> ResRaise(DidNotStop(0))
      [] c = "raise" -> ResRaise(DidNotStopAfterThrow(0))

\* The generator of the stack raises e while call c is in progress.
OnRaise(c, e) ==
    IF c = "close" /\ e = GeneratorExit THEN ResOk ELSE ResRaise(e)

\* The generator of the stack returns while call c is in progress.
OnReturn(c) ==
    CASE c = "enter" -> ResRaise(DidNotYield(0))
      [] c \in {"send", "throw"} -> ResRaise(StopIteration)
      [] c \in {"close", "exit", "raise"} -> ResOk

\* Where the caller is once call c has given res.
WhereAfter(c, res) ==
    CASE c = "enter" -> IF res.k = "list" THEN "inwith" ELSE "after"
      [] c \in {"exit", "raise"} -> "after"
      [] OTHER -> where

\* Hand res to the caller and let it run.
Deliver(res, evs) ==
    /\ result' = res
    /\ where' = WhereAfter(call, res)
    /\ call' = "none"
    /\ thrown' = None
    /\ log' = log \o evs \o <<RetEv(call, res)>>

-----------------------------------------------------------------------------
(* stack_gen_ctxs of stack/sync.py.                                        *)
(* pc: "init"   not started                                                *)
(*     "enter"  in the loop of lines 96-99 (pos: index of the next ctx)    *)
(*     "yield1" suspended at line 103                                      *)
(*     "send"   in the list comprehension of line 110 (pos: how far)       *)
(*     "yield2" suspended at line 110                                      *)
(*     "exit"   in the finally clause, lines 119-132                       *)
(*     "done"   finished                                                   *)

\* A stack without the `if ctxs:` of line 105: it sends to the contexts,
\* however few, and yields the list.
SyncResumeSendAlways(v) ==
    /\ sent' = v
    /\ pc' = "send"
    /\ pos' = 1
    /\ ys' = <<>>
    /\ UNCHANGED <<exc_info, entered, snap, pvars>>

\* The generator is resumed by send(v) (next(gen) is send(None)): lines 103-110.
SyncResumeSend(v) ==
    /\ sent' = v
    /\ IF pc = "yield1" /\ n = 0
       THEN \* `if ctxs:` is false; the else clause of line 117
            /\ pc' = "exit"
            /\ exc_info' = None
            /\ UNCHANGED <<ys, pos, pvars>>
       ELSE /\ pc' = "send"
            /\ pos' = 1
            /\ ys' = <<>>
            /\ UNCHANGED exc_info
    /\ UNCHANGED <<entered, snap, pvars>>

\* The generator is resumed by throw(e) (close() throws GeneratorExit):
\* `except BaseException` of line 115.
SyncResumeThrow(e) ==
    /\ pc' = "exit"
    /\ exc_info' = e
    /\ UNCHANGED <<sent, ys, pos, entered, snap, pvars>>

\* A stack that records a context as entered whatever its __enter__ gave.
EnteredAlways(s, i, eo) == Append(s, i)

\* Line 98: `entered` once ctx.__enter__() of ctxs[i] gave eo; a context
\* whose __enter__ raised is not appended.
EnteredAfterEnter(s, i, eo) ==
    IF eo.k = "value" THEN Append(s, i) ELSE s

\* A comprehension that runs over ctxs from the first to the last.
SendTargetForward(p) == p

\* Line 110: the context the comprehension over reversed(ctxs) reaches at its pos-th element.
SendTarget(p) == n + 1 - p

\* A stack that exits the first entered context first.
PopCtxFirst(s) == s[1]

\* Line 122: ctx = entered.pop() -- the context popped and the list left.
PopCtx(s) == s[Len(s)]
\* A stack that forgets every other entered context once it has popped one.
PopAll(s) == <<>>

\* Line 122: what entered.pop() leaves in `entered`.
PopRest(s) == SubSeq(s, 1, Len(s) - 1)

\* A loop that enters the contexts from the last to the first.
EnterTargetBackward(p) == n + 1 - p

\* Line 96 (line 32 of stack/async_.py): the context `for ctx in ctxs`
\* reaches at its p-th element.
EnterTarget(p) == p

\* Lines 96-99: y = ctx.__enter__(); entered.append(ctx); ys.append(y)
SyncEnterCtx ==
    /\ impl = "sync" /\ pc = "enter" /\ pos <= n
    /\ \E r \in Responses(EnterTarget(pos), "send") :
        LET i == EnterTarget(pos)
            o == GenResume(i, "send", None, r)
            eo == EnterOutcome(i, o)
        IN  /\ gst' = [gst EXCEPT ![i] = GenStateAfter(i, o)]
            /\ nyield' = [nyield EXCEPT ![i] = NYieldAfter(i, o)]
            /\ log' = Append(log, CtxEv("__enter__", i, gst[i], None, eo))
            /\ entered' = EnteredAfterEnter(entered, i, eo)
            /\ IF eo.k = "value"
               THEN /\ ys' = Append(ys, eo.v)
                    /\ pos' = pos + 1
                    /\ UNCHANGED <<pc, exc_info, pvars>>
               ELSE \* line 115
                    /\ exc_info' = eo.v
                    /\ pc' = "exit"
                    /\ UNCHANGED <<ys, pos, pvars>>
    /\ UNCHANGED <<xvars, impl, n, sent, snap, call, thrown, where, result, ncalls, pvars>>

\* Line 103: sent = yield ys
SyncYieldEntered ==
    /\ impl = "sync" /\ pc = "enter" /\ pos = n + 1
    /\ pc' = "yield1"
    /\ Deliver(OnYield(call, ys), <<>>)
    /\ UNCHANGED <<xvars, impl, n, gst, nyield, entered, ys, sent, exc_info, pos, snap, ncalls, pvars>>

\* A stack that goes on with the comprehension when a context finishes, and
\* yields the values of the others.
SendBranchGoesOn(o) == IF o.k = "raise" THEN "exit" ELSE "send"

\* Lines 107-115: where ctx.gen.send(sent) giving o leads -- on with the
\* comprehension of line 110, or out of the loop, the values collected so
\* far dropped, to the finally clause.
SendBranch(o) == IF o.k = "yield" THEN "send" ELSE "exit"

\* Line 110, one element of the comprehension: ctx.gen.send(sent) for ctx in reversed(ctxs)
SyncSendCtx ==
    /\ impl = "sync" /\ pc = "send" /\ pos <= n
    /\ LET i == SendTarget(pos) IN
       \E r \in Responses(i, "send") :
        LET o == GenResume(i, "send", sent, r)
        IN  /\ gst' = [gst EXCEPT ![i] = GenStateAfter(i, o)]
            /\ nyield' = [nyield EXCEPT ![i] = NYieldAfter(i, o)]
            /\ log' = Append(log, CtxEv("send", i, gst[i], sent, o))
            /\ IF SendBranch(o) = "send"
               THEN /\ ys' = IF o.k = "yield" THEN Append(ys, o.v) ELSE ys
                    /\ pos' = pos + 1
                    /\ UNCHANGED <<pc, exc_info, pvars>>
               ELSE \* o.k = "return": lines 111-113, then the else clause of
                    \* line 117; o.k = "raise": line 115
                    /\ exc_info' = IF o.k = "raise" THEN o.v ELSE None
                    /\ pc' = "exit"
                    /\ UNCHANGED <<ys, pos, pvars>>
    /\ UNCHANGED <<xvars, impl, n, entered, sent, snap, call, thrown, where, result, ncalls, pvars>>

\* Line 110: sent = yield [...]
SyncYieldSent ==
    /\ impl = "sync" /\ pc = "send" /\ pos = n + 1
    /\ pc' = "yield2"
    /\ Deliver(OnYield(call, ys), <<>>)
    /\ UNCHANGED <<xvars, impl, n, gst, nyield, entered, ys, sent, exc_info, pos, snap, ncalls, pvars>>

\* A stack that keeps the carried exception when __exit__ returns true.
ExcInfoNeverCleared(exc, xo) == IF xo.k = "raise" THEN xo.v ELSE exc

\* A stack that drops the exception a context raises in place of the carried one.
ExcInfoKeepsOriginal(exc, xo) == IF xo.k = "true" THEN None ELSE exc

\* The carried exception after ctx.__exit__(*exc_info) gave xo: lines 123-128.
ExcInfoAfterExit(exc, xo) ==
    CASE xo.k = "true"  -> None
      [] xo.k = "false" -> exc
      [] xo.k = "raise" -> xo.v

\* Lines 121-128: ctx = entered.pop(); ctx.__exit__(*exc_info)
SyncExitCtx ==
    /\ impl = "sync" /\ pc = "exit" /\ entered # <<>>
    /\ LET i == PopCtx(entered)
           how == IF exc_info = None THEN "send" ELSE "throw"
       IN
       \E r \in Responses(i, how) :
        LET o == GenResume(i, how, exc_info, r)
            xo == ExitOutcome(i, exc_info, o)
        IN  /\ gst' = [gst EXCEPT ![i] = GenStateAfter(i, o)]
            /\ nyield' = [nyield EXCEPT ![i] = NYieldAfter(i, o)]
            /\ log' = Append(log, CtxEv("__exit__", i, gst[i], exc_info, xo))
            /\ entered' = PopRest(entered)
            /\ exc_info' = ExcInfoAfterExit(exc_info, xo)
    /\ UNCHANGED <<xvars, impl, n, pc, ys, sent, pos, snap, call, thrown, where, result, ncalls, pvars>>

\* Lines 130-132: raise what is left of exc_info, or return.
SyncFinish ==
    /\ impl = "sync" /\ pc = "exit" /\ entered = <<>>
    /\ pc' = "done"
    /\ Deliver(IF IsExc(exc_info) THEN OnRaise(call, exc_info) ELSE OnReturn(call), <<>>)
    /\ UNCHANGED <<xvars, impl, n, gst, nyield, entered, ys, sent, exc_info, pos, snap, ncalls, pvars>>

-----------------------------------------------------------------------------
(* stack_gen_ctxs of gen.py (round-based).                                 *)
(* pc: "init"   not started                                                *)
(*     "enter"  in the loop of lines 77-80 (pos: index of the next ctx)    *)
(*     "yield"  suspended at line 85                                       *)
(*     "round"  in the for loop of lines 93-114 over snap (pos: how far)   *)
(*     "exit"   in the finally clause, lines 158-171                       *)
(*     "done"   finished                                                   *)

Reverse(s) == [j \in 1 .. Len(s) |-> s[Len(s) + 1 - j]]

\* A stack that keeps in `entered` the contexts whose generator has finished.
RemoveNothing(s, i) == s

\* entered.remove(ctx)
Remove(s, i) == SelectSeq(s, LAMBDA x : x # i)

\* The generator is resumed by send(v) at line 85: lines 85-93.
RoundResumeSend(v) ==
    /\ sent' = v
    /\ exc_info' = None
    /\ ys' = <<>>
    /\ snap' = Reverse(entered)
    /\ pos' = 1
    /\ pc' = "round"
    /\ UNCHANGED entered

\* The generator is resumed by throw(e) at line 85: lines 83-93.
RoundResumeThrow(e) ==
    /\ sent' = None
    /\ exc_info' = e
    /\ ys' = <<>>
    /\ snap' = Reverse(entered)
    /\ pos' = 1
    /\ pc' = "round"
    /\ UNCHANGED entered

\* Lines 77-80: y = ctx.__enter__(); entered.append(ctx); ys.append(y)
RoundEnterCtx ==
    /\ impl = "gen" /\ pc = "enter" /\ pos <= n
    /\ \E r \in Responses(pos, "send") :
        LET i == pos
            o == GenResume(i, "send", None, r)
            eo == EnterOutcome(i, o)
        IN  /\ gst' = [gst EXCEPT ![i] = GenStateAfter(i, o)]
            /\ nyield' = [nyield EXCEPT ![i] = NYieldAfter(i, o)]
            /\ log' = Append(log, CtxEv("__enter__", i, gst[i], None, eo))
            /\ IF eo.k = "value"
               THEN /\ entered' = Append(entered, i)
                    /\ ys' = Append(ys, eo.v)
                    /\ pos' = pos + 1
                    /\ UNCHANGED <<pc, exc_info, pvars>>
               ELSE \* line 154
                    /\ exc_info' = eo.v
                    /\ pc' = "exit"
                    /\ UNCHANGED <<entered, ys, pos, pvars>>
    /\ UNCHANGED <<xvars, impl, n, sent, snap, call, thrown, where, result, ncalls, pvars>>

\* Line 85: sent = yield ys, reached from line 80 or from line 119.
RoundYield ==
    /\ impl = "gen"
    /\ IF pc = "enter" THEN pos = n + 1
       ELSE pc = "round" /\ pos = Len(snap) + 1 /\ ~IsExc(exc_info) /\ entered # <<>>
    /\ pc' = "yield"
    /\ Deliver(OnYield(call, ys), <<>>)
    /\ UNCHANGED <<xvars, impl, n, gst, nyield, entered, ys, sent, exc_info, pos, snap, ncalls, pvars>>

\* ctx.gen.close() (line 97) when throwing GeneratorExit into the body gave o.
CloseOutcome(i, o) ==
    CASE o.k = "yield"  -> [k |-> "raise", v |-> IgnoredGeneratorExit(i)]
      [] o.k = "return" -> [k |-> "ok", v |-> None]
      [] o.k = "raise"  -> IF o.v = GeneratorExit THEN [k |-> "ok", v |-> None]
                                                  ELSE [k |-> "raise", v |-> o.v]

\* A round that sends to every context whatever is carried.
RoundBranchSend(exc) == "send"

\* Which branch of the match statement of line 95 runs.
RoundBranch(exc) ==
    IF exc = GeneratorExit THEN "close"
    ELSE IF IsExc(exc) THEN "throw"
    ELSE "send"

\* Lines 93-114, one iteration of `for ctx in list(reversed(entered))`.
RoundStepCtx ==
    /\ impl = "gen" /\ pc = "round" /\ pos <= Len(snap)
    /\ LET i == snap[pos]
           b == RoundBranch(exc_info)
           how == IF b = "send" THEN "send" ELSE "throw"
           arg == IF b = "send" THEN sent ELSE exc_info
       IN
       \E r \in Responses(i, how) :
        LET o == GenResume(i, how, arg, r)
            co == IF b = "close" THEN CloseOutcome(i, o) ELSE o
        IN  /\ gst' = [gst EXCEPT ![i] = GenStateAfter(i, o)]
            /\ nyield' = [nyield EXCEPT ![i] = NYieldAfter(i, o)]
            /\ log' = Append(log, CtxEv(b, i, gst[i], arg, co))
            /\ pos' = pos + 1
            /\ CASE co.k = "raise" ->
                    \* lines 112-114
                    /\ entered' = Remove(entered, i)
                    /\ exc_info' = co.v
                    /\ UNCHANGED ys
                 [] co.k = "ok" ->
                    \* line 97 returned
                    UNCHANGED <<entered, exc_info, ys, pvars>>
                 [] co.k = "return" ->
                    \* lines 101-103 and 108-109
                    /\ entered' = Remove(entered, i)
                    /\ exc_info' = None
                    /\ UNCHANGED ys
                 [] co.k = "yield" ->
                    \* line 103, or lines 106-107
                    /\ exc_info' = None
                    /\ ys' = IF b = "send" THEN Append(ys, co.v) ELSE ys
                    /\ UNCHANGED entered
    /\ UNCHANGED <<xvars, impl, n, pc, sent, snap, call, thrown, where, result, ncalls, pvars>>

\* Lines 116-120 when the round does not go on to line 85: the carried
\* exception is raised (caught at line 154), or the loop is left (line 157).
RoundEnd ==
    /\ impl = "gen" /\ pc = "round" /\ pos = Len(snap) + 1
    /\ IF IsExc(exc_info) THEN TRUE ELSE entered = <<>>
    /\ pc' = "exit"
    /\ exc_info' = IF IsExc(exc_info) THEN exc_info ELSE None
    /\ UNCHANGED <<xvars, impl, n, gst, nyield, entered, ys, sent, pos, snap,
                   call, thrown, where, result, ncalls, log, pvars>>

\* Lines 160-167: ctx = entered.pop(); ctx.__exit__(*exc_info)
RoundExitCtx ==
    /\ impl = "gen" /\ pc = "exit" /\ entered # <<>>
    /\ LET i == entered[Len(entered)]
           how == IF exc_info = None THEN "send" ELSE "throw"
       IN
       \E r \in Responses(i, how) :
        LET o == GenResume(i, how, exc_info, r)
            xo == ExitOutcome(i, exc_info, o)
        IN  /\ gst' = [gst EXCEPT ![i] = GenStateAfter(i, o)]
            /\ nyield' = [nyield EXCEPT ![i] = NYieldAfter(i, o)]
            /\ log' = Append(log, CtxEv("__exit__", i, gst[i], exc_info, xo))
            /\ entered' = SubSeq(entered, 1, Len(entered) - 1)
            /\ exc_info' = ExcInfoAfterExit(exc_info, xo)
    /\ UNCHANGED <<xvars, impl, n, pc, ys, sent, pos, snap, call, thrown, where, result, ncalls, pvars>>

\* Lines 169-171: raise what is left of exc_info, or return.
RoundFinish ==
    /\ impl = "gen" /\ pc = "exit" /\ entered = <<>>
    /\ pc' = "done"
    /\ Deliver(IF IsExc(exc_info) THEN OnRaise(call, exc_info) ELSE OnReturn(call), <<>>)
    /\ UNCHANGED <<xvars, impl, n, gst, nyield, entered, ys, sent, exc_info, pos, snap, ncalls, pvars>>

-----------------------------------------------------------------------------
(* _cm_gen and _support_gen of _wrap/with_.py: the contexts of the hook    *)
(* implementations are entered in a contextlib.ExitStack, and the          *)
(* generator yields from _support_gen until every implementation has       *)
(* finished.                                                               *)
(* pc: "init"   not started                                                *)
(*     "enter"  in the comprehension of line 33 (pos: index of the next)   *)
(*     "yield"  suspended at line 74                                       *)
(*     "send"   in the loop of lines 94-101 (pos: how far)                 *)
(*     "throw"  in the loop of lines 80-88 (pos: how far)                  *)
(*     "exit"   in ExitStack.__exit__ after _support_gen returned          *)
(*     "unwind" in ExitStack.__exit__ with an exception in flight          *)
(*     "done"   finished                                                   *)

\* The value ctxs[i].gen returns (StopIteration.value).
RetVal(i) == [type |-> "return", src |-> i, k |-> 0]
\* BaseExceptionGroup('Raised in hook implementations.', raised)
RaisedGroup == [type |-> "BaseExceptionGroup", src |-> 0, k |-> 0]
\* `return returns` of line 52 when line 51 never assigned `returns`
UnboundReturns == [type |-> "UnboundLocalError", src |-> 0, k |-> 0]

\* The generator returns L while the caller's call c is in progress: send and
\* throw raise StopIteration(L).
OnReturnValue(c, L) ==
    IF c \in {"send", "throw"}
    THEN [k |-> "raise", v |-> StopIteration, list |-> L]
    ELSE OnReturn(c)

\* The generator is resumed by send(v) at line 74: lines 93-94.
CmResumeSend(v) ==
    /\ sent' = v
    /\ ys' = <<>>
    /\ pos' = 1
    /\ pc' = "send"
    /\ UNCHANGED <<entered, exc_info, snap, pvars>>

\* The generator is resumed by throw(e) at line 74: lines 75-80.
CmResumeThrow(e) ==
    /\ exc_info' = e
    /\ pos' = 1
    /\ pc' = "throw"
    /\ UNCHANGED <<entered, ys, sent, snap, pvars>>

\* Line 33: stack.enter_context(ctx) for ctx in ctxs
CmEnterCtx ==
    /\ impl = "with" /\ pc = "enter" /\ pos <= n
    /\ \E r \in Responses(pos, "send") :
        LET i == pos
            o == GenResume(i, "send", None, r)
            eo == EnterOutcome(i, o)
        IN  /\ gst' = [gst EXCEPT ![i] = GenStateAfter(i, o)]
            /\ nyield' = [nyield EXCEPT ![i] = NYieldAfter(i, o)]
            /\ log' = Append(log, CtxEv("__enter__", i, gst[i], None, eo))
            /\ entered' = EnteredAfterEnter(entered, i, eo)
            /\ IF eo.k = "value"
               THEN /\ ys' = Append(ys, eo.v)
                    /\ pos' = pos + 1
                    /\ UNCHANGED <<pc, exc_info, pvars>>
               ELSE \* the exception leaves the with statement of line 32
                    /\ exc_info' = eo.v
                    /\ pc' = "unwind"
                    /\ UNCHANGED <<ys, pos, pvars>>
    /\ UNCHANGED <<xvars, impl, n, sent, snap, call, thrown, where, result, ncalls, pvars>>

\* Line 74: sent = yield yields, reached from line 51 or from line 103.
CmYield ==
    /\ impl = "with"
    /\ IF pc = "enter" THEN pos = n + 1
       ELSE /\ pc = "send" /\ pos = n + 1
            /\ \E i \in Ctxs : stop_iteration[i] = None
    /\ pc' = "yield"
    /\ Deliver(OnYield(call, ys), <<>>)
    /\ UNCHANGED <<xvars, impl, n, gst, nyield, entered, ys, sent, exc_info, pos, snap, ncalls, pvars>>

\* A loop that runs over the contexts from the first to the last.
SupportTargetForward(p) == p

\* Line 94: the context the loop over reversed(contexts) reaches at its p-th turn.
SupportTarget(p) == n + 1 - p

\* A loop that forgets the return value of a context.
StopIterationLost(s, i, o) == s

\* Lines 99-100: c.stop_iteration once c.context.gen.send(sent) gave o.
StopIterationAfter(s, i, o) ==
    IF o.k = "return" THEN [s EXCEPT ![i] = RetVal(i)] ELSE s

\* Lines 94-101, one turn of `for c in reversed(contexts)`.
CmSendCtx ==
    /\ impl = "with" /\ pc = "send" /\ pos <= n
    /\ LET i == SupportTarget(pos) IN
       IF stop_iteration[i] # None
       THEN \* line 96 is false: y = None
            /\ ys' = Append(ys, None)
            /\ pos' = pos + 1
            /\ UNCHANGED <<gst, nyield, log, stop_iteration, pc, exc_info, pvars>>
       ELSE \E r \in Responses(i, "send") :
            LET o == GenResume(i, "send", sent, r)
                lo == IF o.k = "return" THEN [k |-> "return", v |-> RetVal(i)] ELSE o
            IN  /\ gst' = [gst EXCEPT ![i] = GenStateAfter(i, o)]
                /\ nyield' = [nyield EXCEPT ![i] = NYieldAfter(i, o)]
                /\ log' = Append(log, CtxEv("send", i, gst[i], sent, lo))
                /\ stop_iteration' = StopIterationAfter(stop_iteration, i, o)
                /\ CASE o.k = "yield" ->
                        /\ ys' = Append(ys, o.v)
                        /\ pos' = pos + 1
                        /\ UNCHANGED <<pc, exc_info, pvars>>
                     [] o.k = "return" ->
                        /\ ys' = Append(ys, None)
                        /\ pos' = pos + 1
                        /\ UNCHANGED <<pc, exc_info, pvars>>
                     [] o.k = "raise" ->
                        \* the exception leaves _support_gen and the with statement of line 32
                        /\ exc_info' = o.v
                        /\ pc' = "unwind"
                        /\ UNCHANGED <<ys, pos, pvars>>
    /\ UNCHANGED <<raised, sequential, task, gather, cur, pvars>>
    /\ UNCHANGED <<impl, n, entered, sent, snap, call, thrown, where, result, ncalls, pvars>>

\* A list of the return values in the order of the loop of line 94.
ReturnsReversed(s) == [i \in 1 .. n |-> s[n + 1 - i]]

\* Line 106: returns = [c.stop_iteration and c.stop_iteration.value for c in contexts]
Returns(s) == [i \in 1 .. n |-> s[i]]

\* Lines 103-107 and 51: every implementation has finished; _support_gen
\* returns `returns` and the with statement of line 32 is left.
CmReturn ==
    /\ impl = "with" /\ pc = "send" /\ pos = n + 1
    /\ \A i \in Ctxs : stop_iteration[i] # None
    /\ ys' = Returns(stop_iteration)
    /\ exc_info' = None
    /\ pc' = "exit"
    /\ UNCHANGED <<xvars, impl, n, gst, nyield, entered, sent, pos, snap,
                   call, thrown, where, result, ncalls, log, pvars>>

\* Lines 80-88, one turn of `for c in contexts`: c.context.gen.throw(thrown)
CmThrowCtx ==
    /\ impl = "with" /\ pc = "throw" /\ pos <= n
    /\ LET i == pos IN
       IF stop_iteration[i] # None
       THEN \* lines 81-82
            /\ pos' = pos + 1
            /\ UNCHANGED <<gst, nyield, log, raised, pvars>>
       ELSE \E r \in Responses(i, "throw") :
            LET o == GenResume(i, "throw", exc_info, r)
            IN  /\ gst' = [gst EXCEPT ![i] = GenStateAfter(i, o)]
                /\ nyield' = [nyield EXCEPT ![i] = NYieldAfter(i, o)]
                /\ log' = Append(log, CtxEv("throw", i, gst[i], exc_info, o))
                /\ raised' = IF o.k = "raise" THEN Append(raised, o.v) ELSE raised
                /\ pos' = pos + 1
    /\ UNCHANGED <<stop_iteration, sequential, task, gather, cur, pvars>>
    /\ UNCHANGED <<impl, n, pc, entered, ys, sent, exc_info, snap,
                   call, thrown, where, result, ncalls, pvars>>

\* Line 91 alone: the exception thrown in is raised again whatever the
\* implementations raised.
ThrowLeavesThrown(r, e) == e

\* Lines 89-91: what _support_gen raises after the loop, r being `raised` and
\* e the exception thrown in.
ThrowLeaves(r, e) == IF r # <<>> THEN RaisedGroup ELSE e

\* Lines 89-91: raise the group of what the implementations raised, or the
\* exception thrown in; it leaves the with statement of line 32.
CmThrowEnd ==
    /\ impl = "with" /\ pc = "throw" /\ pos = n + 1
    /\ exc_info' = ThrowLeaves(raised, exc_info)
    /\ pc' = "unwind"
    /\ UNCHANGED <<xvars, impl, n, gst, nyield, entered, ys, sent, pos, snap,
                   call, thrown, where, result, ncalls, log, pvars>>

\* ExitStack.__exit__ (line 32): the contexts entered are exited, the last
\* entered first, each given what the one before left.
CmExitCtx ==
    /\ impl = "with" /\ pc \in {"exit", "unwind"} /\ entered # <<>>
    /\ LET i == PopCtx(entered)
           how == IF exc_info = None THEN "send" ELSE "throw"
       IN
       \E r \in Responses(i, how) :
        LET o == GenResume(i, how, exc_info, r)
            xo == ExitOutcome(i, exc_info, o)
        IN  /\ gst' = [gst EXCEPT ![i] = GenStateAfter(i, o)]
            /\ nyield' = [nyield EXCEPT ![i] = NYieldAfter(i, o)]
            /\ log' = Append(log, CtxEv("__exit__", i, gst[i], exc_info, xo))
            /\ entered' = PopRest(entered)
            /\ exc_info' = ExcInfoAfterExit(exc_info, xo)
    /\ UNCHANGED <<xvars, impl, n, pc, ys, sent, pos, snap, call, thrown, where, result, ncalls, pvars>>

\* What _cm_gen ends with once the ExitStack has exited every context: the
\* exception left is raised; without one, line 52 returns `returns`, which is
\* unbound unless _support_gen returned.
CmOutcome(p, exc, c, L) ==
    IF IsExc(exc) THEN OnRaise(c, exc)
    ELSE IF p = "exit" THEN OnReturnValue(c, L)
    ELSE OnRaise(c, UnboundReturns)

\* Lines 32 and 52: the with statement is left and the generator ends.
CmFinish ==
    /\ impl = "with" /\ pc \in {"exit", "unwind"} /\ entered = <<>>
    /\ pc' = "done"
    /\ Deliver(CmOutcome(pc, exc_info, call, ys), <<>>)
    /\ UNCHANGED <<xvars, impl, n, gst, nyield, entered, ys, sent, exc_info, pos, snap, ncalls, pvars>>

-----------------------------------------------------------------------------
(* async_stack_gen_ctxs of stack/async_.py.  The contexts are asynchronous  *)
(* generator context managers; in the log "__enter__", "send" and          *)
(* "__exit__" stand for __aenter__, gen.asend and __aexit__, "return" for  *)
(* StopAsyncIteration, and StopIteration for StopAsyncIteration.           *)
(* An awaited operation on a context begins and ends in two steps, since   *)
(* the body of the context may wait for the event loop and other tasks run *)
(* in between; the log has the operation when it ends, with the state of   *)
(* the generator when it began.                                            *)
(* pc: "init"   not started                                                *)
(*     "enter"  at line 31 (sequential: pos is the next ctx of line 32)    *)
(*     "gather" awaiting asyncio.gather of line 34 or of line 48           *)
(*     "yield1" suspended at line 38                                       *)
(*     "send"   at line 45 (sequential: pos is how far line 46 is)         *)
(*     "yield2" suspended at line 51                                       *)
(*     "exit"   in the finally clause, lines 65-78 (pos: how far)          *)
(*     "done"   finished                                                   *)

\* RuntimeError("anext(): asynchronous generator is already running") and
\* its athrow() counterpart: an operation on an asynchronous generator while
\* another one is in progress.
AlreadyRunning(i) ==
    [type |-> "RuntimeError: asynchronous generator is already running",
     src |-> i, k |-> 0]

\* `ctx in entered`
InEntered(i) == \E k \in 1 .. Len(entered) : entered[k] = i

\* The generator is resumed by asend(v): lines 38-45.
AsyncResumeSend(v) ==
    /\ sent' = v
    /\ pos' = 1
    /\ IF n = 0
       THEN \* `if ctxs:` is false; the else clause of line 63
            /\ pc' = "exit"
            /\ exc_info' = None
            /\ UNCHANGED ys
       ELSE /\ pc' = "send"
            /\ ys' = <<>>
            /\ UNCHANGED exc_info
    /\ UNCHANGED <<entered, snap, pvars>>

\* The generator is resumed by athrow(e) (aclose() throws GeneratorExit):
\* `except BaseException` of line 61.
AsyncResumeThrow(e) ==
    /\ pc' = "exit"
    /\ exc_info' = e
    /\ pos' = 1
    /\ UNCHANGED <<sent, ys, entered, snap, pvars>>

\* Line 32, one element: y = await ctx.__aenter__(); entered.add(ctx)
AsyncEnterCtx ==
    /\ impl = "async" /\ sequential /\ pc = "enter" /\ pos <= n
    /\ \E r \in Responses(EnterTarget(pos), "send") :
        LET i == EnterTarget(pos)
            o == GenResume(i, "send", None, r)
            eo == EnterOutcome(i, o)
        IN  /\ gst' = [gst EXCEPT ![i] = GenStateAfter(i, o)]
            /\ nyield' = [nyield EXCEPT ![i] = NYieldAfter(i, o)]
            /\ log' = Append(log, CtxEv("__enter__", i, gst[i], None, eo))
            /\ entered' = EnteredAfterEnter(entered, i, eo)
            /\ IF eo.k = "value"
               THEN /\ ys' = Append(ys, eo.v)
                    /\ pos' = pos + 1
                    /\ UNCHANGED <<pc, exc_info, pvars>>
               ELSE \* line 61
                    /\ exc_info' = eo.v
                    /\ pc' = "exit"
                    /\ pos' = 1
                    /\ UNCHANGED ys
    /\ UNCHANGED <<xvars, impl, n, sent, snap, call, thrown, where, result, ncalls, pvars>>

\* Line 38: sent = yield ys
AsyncYieldEntered ==
    /\ impl = "async" /\ sequential /\ pc = "enter" /\ pos = n + 1
    /\ pc' = "yield1"
    /\ Deliver(OnYield(call, ys), <<>>)
    /\ UNCHANGED <<xvars, impl, n, gst, nyield, entered, ys, sent, exc_info, pos, snap, ncalls, pvars>>

\* Line 46, one element: await ctx.gen.asend(sent) for ctx in reversed(ctxs)
AsyncSendCtx ==
    /\ impl = "async" /\ sequential /\ pc = "send" /\ pos <= n
    /\ LET i == SendTarget(pos) IN
       \E r \in Responses(i, "send") :
        LET o == GenResume(i, "send", sent, r)
        IN  /\ gst' = [gst EXCEPT ![i] = GenStateAfter(i, o)]
            /\ nyield' = [nyield EXCEPT ![i] = NYieldAfter(i, o)]
            /\ log' = Append(log, CtxEv("send", i, gst[i], sent, o))
            /\ CASE o.k = "yield" ->
                    /\ ys' = Append(ys, o.v)
                    /\ pos' = pos + 1
                    /\ UNCHANGED <<pc, exc_info, pvars>>
                 [] o.k = "return" ->
                    \* lines 52-59, then the else clause of line 63
                    /\ exc_info' = None
                    /\ pc' = "exit"
                    /\ pos' = 1
                    /\ UNCHANGED ys
                 [] o.k = "raise" ->
                    \* line 61
                    /\ exc_info' = o.v
                    /\ pc' = "exit"
                    /\ pos' = 1
                    /\ UNCHANGED ys
    /\ UNCHANGED <<xvars, impl, n, entered, sent, snap, call, thrown, where, result, ncalls, pvars>>

\* Line 51: sent = yield ys
AsyncYieldSent ==
    /\ impl = "async" /\ sequential /\ pc = "send" /\ pos = n + 1
    /\ pc' = "yield2"
    /\ Deliver(OnYield(call, ys), <<>>)
    /\ UNCHANGED <<xvars, impl, n, gst, nyield, entered, ys, sent, exc_info, pos, snap, ncalls, pvars>>

\* Lines 34 and 48: asyncio.gather(...) makes one task per context and the
\* stack awaits them; each task runs, in the order of the arguments, up to
\* the point where the body of its context waits, before the stack runs again.
GatherStart ==
    /\ impl = "async" /\ ~sequential /\ pc \in {"enter", "send"}
    /\ gather' = [kind |-> pc, first |-> None]
    /\ task' = [i \in 1 .. MaxCtxs |-> IF i \in Ctxs THEN "running" ELSE "idle"]
    /\ gst' = [i \in 1 .. MaxCtxs |->
                 IF i \in Ctxs /\ gst[i] # "closed" THEN "running" ELSE gst[i]]
    /\ pc' = "gather"
    /\ UNCHANGED <<impl, n, nyield, entered, ys, sent, exc_info, pos, snap, call,
                   thrown, where, result, ncalls, log, stop_iteration, raised,
                   sequential, cur, pvars>>

\* What the task of ctxs[i] ends with when its operation gave out (eo for
\* __aenter__, o for asend): None for a value, else the exception it raises.
TaskException(kind, eo, o) ==
    IF kind = "enter"
    THEN IF eo.k = "value" THEN None ELSE eo.v
    ELSE CASE o.k = "yield"  -> None
           [] o.k = "return" -> StopIteration
           [] o.k = "raise"  -> o.v

\* The first exception raised by a task is the one asyncio.gather raises; the
\* exceptions of the other tasks are not retrieved.
FirstException(g, e) ==
    IF pc = "gather" /\ g.first = None THEN [g EXCEPT !.first = e] ELSE g

\* The event loop runs the tasks when the stack does not run: it awaits
\* asyncio.gather or an __aexit__ that has resumed the body of its context,
\* or it is suspended at a yield or finished, and its caller runs or waits.
StackWaits ==
    \/ pc \in {"gather", "yield1", "yield2", "done"}
    \/ \E x \in cur : x.st = "suspended"

\* Lines 24-27 (_enter) and line 49 (ctx.gen.asend(sent)): the task of
\* ctxs[i] ends.  The other tasks are not cancelled when one raises, and
\* the stack may have gone on, or finished, in the meantime.
TaskFinish ==
    /\ impl = "async" /\ StackWaits
    /\ \E i \in Ctxs :
        /\ task[i] = "running"
        /\ \E r \in Responses(i, "send") :
            LET kind == gather.kind
                arg == IF kind = "enter" THEN None ELSE sent
                o == GenResume(i, "send", arg, r)
                eo == EnterOutcome(i, o)
                st == CASE gst[i] = "closed" -> "closed"
                        [] kind = "enter" -> "created"
                        [] OTHER -> "suspended"
            IN  /\ gst' = [gst EXCEPT ![i] = GenStateAfter(i, o)]
                /\ nyield' = [nyield EXCEPT ![i] = NYieldAfter(i, o)]
                /\ task' = [task EXCEPT ![i] = "done"]
                /\ IF kind = "enter"
                   THEN /\ log' = Append(log, CtxEv("__enter__", i, st, None, eo))
                        /\ entered' = EnteredAfterEnter(entered, i, eo)
                   ELSE /\ log' = Append(log, CtxEv("send", i, st, arg, o))
                        /\ UNCHANGED entered
                /\ gather' = FirstException(gather, TaskException(kind, eo, o))
    /\ UNCHANGED <<impl, n, pc, ys, sent, exc_info, pos, snap, call, thrown, where,
                   result, ncalls, stop_iteration, raised, sequential, cur, pvars>>

\* A gather whose list of results is in the reverse order of its arguments.
GatherResultsBackward(kind) ==
    IF kind = "enter"
    THEN [p \in 1 .. n |-> YieldVal(SendTarget(p), nyield[SendTarget(p)])]
    ELSE [p \in 1 .. n |-> YieldVal(p, nyield[p])]

\* The list asyncio.gather returns: the results in the order of its arguments,
\* ctxs for line 34 and reversed(ctxs) for line 49.
GatherResults(kind) ==
    IF kind = "enter"
    THEN [p \in 1 .. n |-> YieldVal(p, nyield[p])]
    ELSE [p \in 1 .. n |-> YieldVal(SendTarget(p), nyield[SendTarget(p)])]

\* Lines 34-38 and 48-51: every task has ended with a value; ys is the list
\* of the values and the stack yields it.
GatherDone ==
    /\ impl = "async" /\ pc = "gather" /\ gather.first = None
    /\ \A i \in Ctxs : task[i] = "done"
    /\ ys' = GatherResults(gather.kind)
    /\ pc' = IF gather.kind = "enter" THEN "yield1" ELSE "yield2"
    /\ gather' = NoGather
    /\ task' = [i \in 1 .. MaxCtxs |-> "idle"]
    /\ Deliver(OnYield(call, GatherResults(gather.kind)), <<>>)
    /\ UNCHANGED <<impl, n, gst, nyield, entered, sent, exc_info, pos, snap, ncalls,
                   stop_iteration, raised, sequential, cur, pvars>>

\* Lines 52-61: asyncio.gather raises the first exception of its tasks in
\* the stack; StopAsyncIteration from an asend ends the loop of line 44.
GatherRaise ==
    /\ impl = "async" /\ pc = "gather" /\ gather.first # None
    /\ exc_info' = IF gather.kind = "send" /\ gather.first = StopIteration
                   THEN None ELSE gather.first
    /\ pc' = "exit"
    /\ pos' = 1
    /\ log' = Append(log, GatherEv(gather.kind, gather.first))
    /\ UNCHANGED <<impl, n, gst, nyield, entered, ys, sent, snap, call, thrown,
                   where, result, ncalls, xvars, pvars>>

\* A stack that starts every __aexit__ without awaiting the one before.
ExitNotAwaited(s) == TRUE

\* Line 71: `await ctx.__aexit__(*exc_info)` -- the loop goes on to the next
\* context only when no __aexit__ is in progress.
ExitAwaited(s) == s = {}

\* A loop that exits the contexts in the order in which they were given.
ExitTargetForward(p) == p

\* The context the loop of line 67 over reversed(ctxs) reaches at its p-th element.
ExitTarget(p) == n + 1 - p

\* Lines 68-69: if ctx not in entered: continue
AsyncExitSkip ==
    /\ impl = "async" /\ pc = "exit" /\ pos <= n
    /\ ExitAwaited(cur)
    /\ ~InEntered(ExitTarget(pos))
    /\ pos' = pos + 1
    /\ UNCHANGED <<impl, n, gst, nyield, pc, entered, ys, sent, exc_info, snap, call,
                   thrown, where, result, ncalls, log, xvars, pvars>>

\* Line 71: ctx.__aexit__(*exc_info) begins.  On a generator that is
\* running an asend it raises at once; on one that has not finished it
\* resumes the body.
AsyncExitStart ==
    /\ impl = "async" /\ pc = "exit" /\ pos <= n
    /\ ExitAwaited(cur)
    /\ InEntered(ExitTarget(pos))
    /\ LET i == ExitTarget(pos) IN
        /\ cur' = cur \cup {[ctx |-> i, exc |-> exc_info, st |-> gst[i]]}
        /\ gst' = [gst EXCEPT ![i] = IF gst[i] = "suspended" THEN "running" ELSE gst[i]]
    /\ pos' = pos + 1
    /\ UNCHANGED <<impl, n, nyield, pc, entered, ys, sent, exc_info, snap, call,
                   thrown, where, result, ncalls, log, stop_iteration, raised,
                   sequential, task, gather, pvars>>

\* An __aexit__ that lets the exception go on when the generator has
\* finished, as the synchronous __exit__ does.
AsyncExitOutcomeAsSync(i, st, exc, o) ==
    CASE st = "running" -> [k |-> "raise", v |-> AlreadyRunning(i)]
      [] st = "closed" -> [k |-> "false", v |-> None]
      [] OTHER -> ExitOutcome(i, exc, o)

\* contextlib._AsyncGeneratorContextManager.__aexit__(typ, value, tb) with
\* value = exc on a generator that was in state st: anext (exc is None) or
\* athrow(exc) gave o.  athrow on a finished asynchronous generator returns
\* None, which __aexit__ takes for a yield.
AsyncExitOutcome(i, st, exc, o) ==
    CASE st = "running" -> [k |-> "raise", v |-> AlreadyRunning(i)]
      [] st = "closed" /\ exc # None -> [k |-> "raise", v |-> DidNotStopAfterThrow(i)]
      [] OTHER -> ExitOutcome(i, exc, o)

\* Lines 71-74: ctx.__aexit__(*exc_info) ends.
AsyncExitFinish ==
    /\ impl = "async"
    /\ \E x \in cur :
        LET i == x.ctx
            how == IF x.exc = None THEN "send" ELSE "throw"
            resumed == x.st = "suspended"
        IN
        \E r \in (IF resumed THEN Responses(i, how) ELSE {"none"}) :
            LET o == IF resumed THEN GenResume(i, how, x.exc, r)
                                ELSE [k |-> "return", v |-> None]
                xo == AsyncExitOutcome(i, x.st, x.exc, o)
            IN  /\ gst' = [gst EXCEPT ![i] = IF resumed THEN GenStateAfter(i, o) ELSE gst[i]]
                /\ nyield' = [nyield EXCEPT ![i] = IF resumed THEN NYieldAfter(i, o) ELSE nyield[i]]
                /\ log' = Append(log, CtxEv("__exit__", i, x.st, x.exc, xo))
                /\ exc_info' = ExcInfoAfterExit(exc_info, xo)
                /\ cur' = cur \ {x}
    /\ UNCHANGED <<impl, n, pc, entered, ys, sent, pos, snap, call, thrown, where,
                   result, ncalls, stop_iteration, raised, sequential, task, gather, pvars>>

\* Lines 76-78: raise what is left of exc_info, or return.
AsyncFinish ==
    /\ impl = "async" /\ pc = "exit" /\ pos = n + 1 /\ cur = {}
    /\ pc' = "done"
    /\ Deliver(IF IsExc(exc_info) THEN OnRaise(call, exc_info) ELSE OnReturn(call), <<>>)
    /\ UNCHANGED <<xvars, impl, n, gst, nyield, entered, ys, sent, exc_info, pos, snap, ncalls, pvars>>

-----------------------------------------------------------------------------
(* The caller.                                                             *)

stackvars == <<pc, entered, ys, sent, exc_info, pos, snap>>

\* stack.gen.send(v) on the suspended generator of the stack
StackResumeSend(v) ==
    CASE impl = "sync" -> SyncResumeSend(v)
      [] impl = "gen"  -> RoundResumeSend(v)
      [] impl = "with" -> CmResumeSend(v)
      [] impl = "async" -> AsyncResumeSend(v)

\* stack.gen.throw(e) on the suspended generator of the stack
StackResumeThrow(e) ==
    CASE impl = "sync" -> SyncResumeThrow(e)
      [] impl = "gen"  -> RoundResumeThrow(e)
      [] impl = "with" -> CmResumeThrow(e)
      [] impl = "async" -> AsyncResumeThrow(e)

\* gen.throw(e) on the finished generator of the stack raises e; athrow(e)
\* on a finished asynchronous generator returns None.
ThrowOnFinished(e) == IF impl = "async" THEN ResOk ELSE ResRaise(e)

\* The with block raises e and the generator of the stack has finished:
\* contextlib's __exit__ lets e go on, and __aexit__, for which the athrow
\* has returned, raises RuntimeError("generator didn't stop after athrow()").
RaiseOnFinished(e) ==
    IF impl = "async" THEN ResRaise(DidNotStopAfterThrow(0)) ELSE ResRaise(e)

\* A call on the generator of the stack once it has finished runs no code of
\* stack_gen_ctxs: the caller has the result at once.
Immediate(c, arg, res) ==
    /\ result' = res
    /\ where' = WhereAfter(c, res)
    /\ log' = log \o <<CallEv(c, arg), RetEv(c, res)>>
    /\ UNCHANGED <<stackvars, call, thrown, pvars>>

\* with stack_gen_ctxs(ctxs) as ys: -- __enter__ runs the generator from its start.
WithEnter ==
    /\ where = "before" /\ call = "none" /\ pc = "init"
    /\ call' = "enter"
    /\ pc' = "enter"
    /\ pos' = 1
    /\ log' = Append(log, CallEv("enter", None))
    /\ UNCHANGED <<xvars, impl, n, gst, nyield, entered, ys, sent, exc_info, snap,
                   thrown, where, result, ncalls, pvars>>

\* stack.gen.send(v) in the with block
GenSend ==
    /\ where = "inwith" /\ call = "none" /\ ncalls < MaxCalls
    /\ ncalls' = ncalls + 1
    /\ LET v == SentVal(ncalls + 1) IN
       IF pc = "done"
       THEN Immediate("send", v, ResRaise(StopIteration))
       ELSE /\ call' = "send"
            /\ StackResumeSend(v)
            /\ log' = Append(log, CallEv("send", v))
            /\ UNCHANGED <<thrown, where, result, pvars>>
    /\ UNCHANGED <<xvars, impl, n, gst, nyield, pvars>>

\* stack.gen.throw(e) in the with block
GenThrow ==
    /\ where = "inwith" /\ call = "none" /\ ncalls < MaxCalls
    /\ ncalls' = ncalls + 1
    /\ LET e == CallerExc(ncalls + 1) IN
       IF pc = "done"
       THEN Immediate("throw", e, ThrowOnFinished(e))
       ELSE /\ call' = "throw"
            /\ thrown' = e
            /\ StackResumeThrow(e)
            /\ log' = Append(log, CallEv("throw", e))
            /\ UNCHANGED <<where, result, pvars>>
    /\ UNCHANGED <<xvars, impl, n, gst, nyield, pvars>>

\* stack.gen.close(), in the with block or after it
GenClose ==
    /\ where \in {"inwith", "after"} /\ call = "none" /\ ncalls < MaxCalls
    /\ ncalls' = ncalls + 1
    /\ IF pc = "done"
       THEN Immediate("close", GeneratorExit, ResOk)
       ELSE /\ call' = "close"
            /\ thrown' = GeneratorExit
            /\ StackResumeThrow(GeneratorExit)
            /\ log' = Append(log, CallEv("close", GeneratorExit))
            /\ UNCHANGED <<where, result, pvars>>
    /\ UNCHANGED <<xvars, impl, n, gst, nyield, pvars>>

\* The with block ends normally: __exit__(None, None, None) calls next(stack.gen).
WithExit ==
    /\ where = "inwith" /\ call = "none"
    /\ IF pc = "done"
       THEN Immediate("exit", None, ResOk)
       ELSE /\ call' = "exit"
            /\ StackResumeSend(None)
            /\ log' = Append(log, CallEv("exit", None))
            /\ UNCHANGED <<thrown, where, result, pvars>>
    /\ UNCHANGED <<xvars, impl, n, gst, nyield, ncalls, pvars>>

\* The exceptions that may leave the with block: one raised there, or the
\* one the last call on stack.gen raised.
RaisableInWith ==
    {CallerExc(0)} \cup (IF result.k = "raise" THEN {result.v} ELSE {})

\* The with block raises e: __exit__(type(e), e, tb) calls stack.gen.throw(e).
WithRaise ==
    /\ where = "inwith" /\ call = "none"
    /\ \E e \in RaisableInWith :
       IF pc = "done"
       THEN Immediate("raise", e, RaiseOnFinished(e))
       ELSE /\ call' = "raise"
            /\ thrown' = e
            /\ StackResumeThrow(e)
            /\ log' = Append(log, CallEv("raise", e))
            /\ UNCHANGED <<where, result, pvars>>
    /\ UNCHANGED <<xvars, impl, n, gst, nyield, ncalls, pvars>>

-----------------------------------------------------------------------------
(* Specification of stack/sync.py.                                         *)

InitCommon ==
    /\ n \in 0 .. MaxCtxs
    /\ gst = [i \in 1 .. MaxCtxs |-> "created"]
    /\ nyield = [i \in 1 .. MaxCtxs |-> 0]
    /\ pc = "init"
    /\ entered = <<>>
    /\ ys = <<>>
    /\ sent = None
    /\ exc_info = None
    /\ pos = 1
    /\ snap = <<>>
    /\ call = "none"
    /\ thrown = None
    /\ where = "before"
    /\ result = ResNone
    /\ ncalls = 0
    /\ log = <<>>
    /\ stop_iteration = [i \in 1 .. MaxCtxs |-> None]
    /\ raised = <<>>
    /\ task = [i \in 1 .. MaxCtxs |-> "idle"]
    /\ gather = NoGather
    /\ cur = {}
    /\ patch = "before"
    /\ ctx_aexit = "_org_aexit"
    /\ ctx_gen = "_org_gen"
    /\ acall = NoCall

Init == impl = "sync" /\ sequential = TRUE /\ InitCommon

Next ==
    \/ WithEnter
    \/ GenSend
    \/ GenThrow
    \/ GenClose
    \/ WithExit
    \/ WithRaise
    \/ SyncEnterCtx
    \/ SyncYieldEntered
    \/ SyncSendCtx
    \/ SyncYieldSent
    \/ SyncExitCtx
    \/ SyncFinish

Spec == Init /\ [][Next]_vars

-----------------------------------------------------------------------------
(* Specification of gen.py.                                                *)

InitGen == impl = "gen" /\ sequential = TRUE /\ InitCommon

NextGen ==
    \/ WithEnter
    \/ GenSend
    \/ GenThrow
    \/ GenClose
    \/ WithExit
    \/ WithRaise
    \/ RoundEnterCtx
    \/ RoundYield
    \/ RoundStepCtx
    \/ RoundEnd
    \/ RoundExitCtx
    \/ RoundFinish

SpecGen == InitGen /\ [][NextGen]_vars

-----------------------------------------------------------------------------
(* Specification of _wrap/with_.py.                                        *)

InitWith == impl = "with" /\ sequential = TRUE /\ InitCommon

NextWith ==
    \/ WithEnter
    \/ GenSend
    \/ GenThrow
    \/ GenClose
    \/ WithExit
    \/ WithRaise
    \/ CmEnterCtx
    \/ CmYield
    \/ CmSendCtx
    \/ CmReturn
    \/ CmThrowCtx
    \/ CmThrowEnd
    \/ CmExitCtx
    \/ CmFinish

SpecWith == InitWith /\ [][NextWith]_vars

-----------------------------------------------------------------------------
(* Specification of stack/async_.py, with sequential true or false.        *)

InitAsync == impl = "async" /\ sequential \in BOOLEAN /\ InitCommon

NextAsync ==
    \/ WithEnter
    \/ GenSend
    \/ GenThrow
    \/ GenClose
    \/ WithExit
    \/ WithRaise
    \/ AsyncEnterCtx
    \/ AsyncYieldEntered
    \/ AsyncSendCtx
    \/ AsyncYieldSent
    \/ GatherStart
    \/ TaskFinish
    \/ GatherDone
    \/ GatherRaise
    \/ AsyncExitSkip
    \/ AsyncExitStart
    \/ AsyncExitFinish
    \/ AsyncFinish

SpecAsync == InitAsync /\ [][NextAsync]_vars

-----------------------------------------------------------------------------
(* Both implementations, for what is said of the two of them.              *)

InitBoth ==
    /\ impl \in {"sync", "gen"}
    /\ sequential = TRUE
    /\ InitCommon

NextBoth ==
    \/ WithEnter
    \/ GenSend
    \/ GenThrow
    \/ GenClose
    \/ WithExit
    \/ WithRaise
    \/ SyncEnterCtx
    \/ SyncYieldEntered
    \/ SyncSendCtx
    \/ SyncYieldSent
    \/ SyncExitCtx
    \/ SyncFinish
    \/ RoundEnterCtx
    \/ RoundYield
    \/ RoundStepCtx
    \/ RoundEnd
    \/ RoundExitCtx
    \/ RoundFinish

SpecBoth == InitBoth /\ [][NextBoth]_vars

-----------------------------------------------------------------------------
(* stack/sync.py and stack/async_.py, for what is said of the two of them. *)

InitStacks ==
    /\ impl \in {"sync", "async"}
    /\ sequential \in (IF impl = "sync" THEN {TRUE} ELSE BOOLEAN)
    /\ InitCommon

NextStacks ==
    \/ WithEnter
    \/ GenSend
    \/ GenThrow
    \/ GenClose
    \/ WithExit
    \/ WithRaise
    \/ SyncEnterCtx
    \/ SyncYieldEntered
    \/ SyncSendCtx
    \/ SyncYieldSent
    \/ SyncExitCtx
    \/ SyncFinish
    \/ AsyncEnterCtx
    \/ AsyncYieldEntered
    \/ AsyncSendCtx
    \/ AsyncYieldSent
    \/ GatherStart
    \/ TaskFinish
    \/ GatherDone
    \/ GatherRaise
    \/ AsyncExitSkip
    \/ AsyncExitStart
    \/ AsyncExitFinish
    \/ AsyncFinish

SpecStacks == InitStacks /\ [][NextStacks]_vars

-----------------------------------------------------------------------------
(* What the log says.                                                      *)

IsPrefix(s, t) == Len(s) <= Len(t) /\ \A j \in 1 .. Len(s) : s[j] = t[j]

CtxOf(evs) == [j \in 1 .. Len(evs) |-> evs[j].ctx]

\* The contexts whose __enter__ returned, in the order they were entered.
EnterSeq == CtxOf(SelectSeq(log, LAMBDA e : e.op = "__enter__" /\ e.out.k = "value"))

\* The contexts on which __exit__ was called, in the order of the calls.
ExitSeq == CtxOf(SelectSeq(log, LAMBDA e : e.op = "__exit__"))

\* The generator of the stack has finished.
StackFinished == pc = "done"

\* The event the caller's last call began with, and that call's kind.
LastCallIdx ==
    IF \E j \in 1 .. Len(log) : log[j].op = "call"
    THEN CHOOSE j \in 1 .. Len(log) :
            log[j].op = "call" /\ \A m \in j + 1 .. Len(log) : log[m].op # "call"
    ELSE 0

-----------------------------------------------------------------------------
(* C1 -- stack/sync.py: __exit__ exactly once, in reverse order of entry.  *)

\* C1 as claimed: however the interaction with the stacked context manager
\* ends, once the with statement is over __exit__ has been called exactly
\* once on every context whose __enter__ returned, in reverse order of entry.
C1_AsClaimed ==
    where = "after" => ExitSeq = Reverse(EnterSeq)

\* C1 (amended): __exit__ is never called twice on a context nor out of
\* order -- the calls made so far are always the first calls of the reverse
\* of the entry order -- and once the generator of the stack has finished
\* every context whose __enter__ returned has had exactly one __exit__ call.
\* The with statement can only be left with the generator unfinished when
\* the with block ended normally and every context yielded again: the caller
\* then gets RuntimeError("generator didn't stop").
C1_ExitOnceInReverse ==
    /\ IsPrefix(ExitSeq, Reverse(EnterSeq))
    /\ StackFinished => ExitSeq = Reverse(EnterSeq)
    /\ (where = "after" /\ call = "none" /\ ~StackFinished) =>
          /\ result = ResRaise(DidNotStop(0))
          /\ ExitSeq = <<>>
          /\ \A i \in Ctxs : gst[i] = "suspended"

\* Three contexts were entered and the stack finished after gen.throw():
\* all three have been exited.
C1_Witness ==
    /\ StackFinished
    /\ Len(EnterSeq) = 3
    /\ ExitSeq = <<3, 2, 1>>
    /\ \E j \in 1 .. Len(log) : log[j].op = "call" /\ log[j].st = "throw"

-----------------------------------------------------------------------------
(* The reference of the tests: the contexts written as nested with          *)
(* statements (tests/stack/refs/sync/nested.py),                           *)
(*     with ctx0 as y0, ctx1 as y1, ...:                                   *)
(*         sent = yield [y0, y1, ...]                                      *)
(*         try:                                                            *)
(*             while True:                                                 *)
(*                 sent = yield [..., ctx1.gen.send(sent), ctx0.gen.send(sent)] *)
(*         except StopIteration:                                           *)
(*             pass                                                        *)
(* run on the history in the log: it is given the calls of the caller and  *)
(* what each context answered, and must do the same operations and hand    *)
(* the caller the same results.                                            *)
(* ph: "idle"    not started                                               *)
(*     "enter"   in the with header; d with statements are open            *)
(*     "body"    suspended at a yield of the body                          *)
(*     "send"    in the list of sends; p is the context to send to next    *)
(*     "unwind"  leaving the with statements, exc in flight; d still open  *)
(*     "end"     finished; "late": a call made on the finished generator   *)
(*     "diverged" the log is not what the nested with statements do        *)

RefInit ==
    [ph |-> "idle", d |-> 0, p |-> 0, exc |-> None, ys |-> <<>>,
     sent |-> None, c |-> "none"]

RefDiverged == [RefInit EXCEPT !.ph = "diverged"]

\* The caller calls the reference.
RefOnCall(r, ev) ==
    LET c == ev.st IN
    CASE r.ph = "idle" /\ c = "enter" ->
            [r EXCEPT !.ph = "enter", !.c = c]
      [] r.ph = "body" /\ c \in {"send", "exit"} ->
            IF n = 0
            THEN \* stack_nested_with_null: nothing follows `yield []`
                 [r EXCEPT !.ph = "unwind", !.exc = None, !.c = c]
            ELSE [r EXCEPT !.ph = "send", !.p = n, !.sent = ev.arg,
                           !.ys = <<>>, !.c = c]
      [] r.ph = "body" /\ c \in {"throw", "close", "raise"} ->
            \* the exception is raised at the yield, inside all with statements
            [r EXCEPT !.ph = "unwind", !.exc = ev.arg, !.c = c]
      [] r.ph = "end" -> [r EXCEPT !.ph = "late", !.c = c]
      [] OTHER -> RefDiverged

\* What the reference hands the caller, if it is at a point where it does.
RefResult(r) ==
    CASE r.ph = "enter" /\ r.d = n -> OnYield(r.c, r.ys)
      [] r.ph = "send" /\ r.p = 0 -> OnYield(r.c, r.ys)
      [] r.ph = "unwind" /\ r.d = 0 ->
            IF IsExc(r.exc) THEN OnRaise(r.c, r.exc) ELSE OnReturn(r.c)
      [] OTHER -> ResNone

\* The caller gets the result ev of its call.
RefOnReturn(r, ev) ==
    IF r.ph = "late" /\ ev.st = r.c THEN [r EXCEPT !.ph = "end"]
    ELSE LET res == RefResult(r) IN
         IF /\ res # ResNone
            /\ ev.st = r.c
            /\ ev.out = [k |-> res.k, v |-> res.v]
            /\ ev.list = res.list
         THEN [r EXCEPT !.ph = IF r.ph = "unwind" THEN "end" ELSE "body"]
         ELSE RefDiverged

\* The operation on a context the reference does next, if it does one.
RefNextOp(r) ==
    CASE r.ph = "enter" /\ r.d < n -> [op |-> "__enter__", ctx |-> r.d + 1, arg |-> None]
      [] r.ph = "send" /\ r.p >= 1 -> [op |-> "send", ctx |-> r.p, arg |-> r.sent]
      [] r.ph = "unwind" /\ r.d >= 1 -> [op |-> "__exit__", ctx |-> r.d, arg |-> r.exc]
      [] OTHER -> [op |-> "none", ctx |-> 0, arg |-> None]

\* ctx.__enter__() of the next with item gave out.
RefAfterEnter(r, out) ==
    IF out.k = "value"
    THEN [r EXCEPT !.d = r.d + 1, !.ys = Append(r.ys, out.v)]
    ELSE \* the with statements opened so far are left with the exception
         [r EXCEPT !.ph = "unwind", !.exc = out.v]

\* ctx.gen.send(sent) in the body gave out.
RefAfterSend(r, out) ==
    CASE out.k = "yield" -> [r EXCEPT !.p = r.p - 1, !.ys = Append(r.ys, out.v)]
      [] out.k = "return" ->
            \* except StopIteration: pass -- the body ends normally
            [r EXCEPT !.ph = "unwind", !.exc = None]
      [] out.k = "raise" -> [r EXCEPT !.ph = "unwind", !.exc = out.v]

\* The with statement of ctx d is left and ctx.__exit__ gave out: a true
\* value swallows the exception, a false one lets it go on, a raise replaces it.
RefAfterExit(r, out) ==
    CASE out.k = "true"  -> [r EXCEPT !.d = r.d - 1, !.exc = None]
      [] out.k = "false" -> [r EXCEPT !.d = r.d - 1]
      [] out.k = "raise" -> [r EXCEPT !.d = r.d - 1, !.exc = out.v]

\* The operation ev on a context is in the log, with what it gave.
RefOnCtx(r, ev) ==
    IF [op |-> ev.op, ctx |-> ev.ctx, arg |-> ev.arg] # RefNextOp(r)
    THEN RefDiverged
    ELSE CASE ev.op = "__enter__" -> RefAfterEnter(r, ev.out)
           [] ev.op = "send" -> RefAfterSend(r, ev.out)
           [] ev.op = "__exit__" -> RefAfterExit(r, ev.out)

RefStep(r, ev) ==
    CASE r.ph = "diverged" -> r
      [] ev.op = "call" -> RefOnCall(r, ev)
      [] ev.op = "to caller" -> RefOnReturn(r, ev)
      [] OTHER -> RefOnCtx(r, ev)

RECURSIVE RefRun(_, _)
RefRun(r, j) == IF j > Len(log) THEN r ELSE RefRun(RefStep(r, log[j]), j + 1)

\* The reference after the history in the log.
RefAfterLog == RefRun(RefInit, 1)

-----------------------------------------------------------------------------
(* C2 -- stack/sync.py does what hand-nested with statements do.           *)

\* C2: for every number of contexts, every sequence of caller actions and
\* every behaviour of the contexts, the operations stack_gen_ctxs has done on
\* the contexts and the lists and outcomes it has handed the caller are those
\* of the same contexts written as nested with statements (ctxs[0] outermost)
\* whose body forwards each sent value from the innermost to the outermost
\* context: the reference, run on the log, never diverges from it, and it has
\* finished when the stack has.
C2_SameAsNestedWith ==
    /\ RefAfterLog.ph # "diverged"
    /\ (StackFinished /\ call = "none") => RefAfterLog.ph = "end"
    /\ RefAfterLog.ph = "end" => StackFinished

\* Three contexts, a send round that all of them answered, then an
\* exception that the middle context handled: the stack and the reference
\* have both finished.
C2_Witness ==
    /\ n = 3 /\ StackFinished /\ call = "none"
    /\ RefAfterLog.ph = "end"
    /\ \E j \in 1 .. Len(log) :
          log[j].op = "to caller" /\ log[j].st = "send" /\ Len(log[j].list) = 3
    /\ \E j \in 1 .. Len(log) :
          log[j].op = "__exit__" /\ log[j].ctx = 2 /\ log[j].out.k = "true"

-----------------------------------------------------------------------------
(* C3 -- a failure while the stack is being entered.                       *)

\* <<m, m - 1, ..., 1>>
Down(m) == [j \in 1 .. m |-> m + 1 - j]

\* The operations on contexts logged after the j-th event.
CtxEvsAfter(j) == SelectSeq(SubSeq(log, j + 1, Len(log)), LAMBDA e : e.ctx # 0)

\* C3: if __enter__ of the context at index k fails while the stack is being
\* entered, the only operations that follow are __exit__ calls on the contexts
\* k-1, k-2, ..., first one, in that order, each once (all of them once the
\* stack has finished); the context at index k gets no __exit__ (its failed
\* __enter__ is the only call it ever receives) and the contexts after k
\* receive no call at all.
C3_EnterFailure ==
    \A j \in 1 .. Len(log) :
        (log[j].op = "__enter__" /\ log[j].out.k = "raise") =>
            LET k == log[j].ctx
                after == CtxEvsAfter(j)
            IN  /\ \A m \in 1 .. Len(after) : after[m].op = "__exit__"
                /\ IsPrefix(CtxOf(after), Down(k - 1))
                /\ StackFinished => CtxOf(after) = Down(k - 1)
                /\ \A m \in 1 .. j - 1 : log[m].op \in {"call", "__enter__"}
                /\ \A m \in 1 .. Len(log) : log[m].ctx = k => m = j
                /\ \A m \in 1 .. Len(log) : log[m].ctx <= k
                /\ \A i \in k + 1 .. n : gst[i] = "created"

\* Of three contexts the second failed to enter: the first has been exited,
\* the third was never touched, and the stack has finished.
C3_Witness ==
    /\ n = 3 /\ StackFinished
    /\ \E j \in 1 .. Len(log) :
          log[j].op = "__enter__" /\ log[j].out.k = "raise" /\ log[j].ctx = 2
    /\ ExitSeq = <<1>>
    /\ gst[3] = "created"

-----------------------------------------------------------------------------
(* C4 -- two contexts, the second fails to enter.                          *)

\* The j-th event is a failed __enter__ of ctxs[i].
EnterFailed(j, i) ==
    log[j].op = "__enter__" /\ log[j].ctx = i /\ log[j].out.k = "raise"

\* The __exit__ calls made on ctxs[i].
ExitsOf(i) == SelectSeq(log, LAMBDA e : e.op = "__exit__" /\ e.ctx = i)

\* What `with stack_gen_ctxs(ctxs)` gave when it was entered: the stack
\* finished without yielding.
EnterFailedWith(res) ==
    \E j \in 1 .. Len(log) : log[j] = RetEv("enter", res)

\* C4 as claimed: with two contexts A and B, if B's __enter__ fails with E,
\* A's __exit__ is called exactly once, with E; and if A suppresses E,
\* entering the stack fails with E.
C4_AsClaimed ==
    \A j \in 1 .. Len(log) :
        (n = 2 /\ EnterFailed(j, 2) /\ StackFinished) =>
            LET E == log[j].out.v IN
            /\ Len(ExitsOf(1)) = 1
            /\ ExitsOf(1)[1].arg = E
            /\ ExitsOf(1)[1].out.k = "true" => EnterFailedWith(ResRaise(E))

\* C4 (amended): with two contexts A and B, if B's __enter__ fails with E,
\* A's __exit__ is called exactly once, with E; entering the stack then
\* always fails: with E if A re-raises it, with A's exception if A raises
\* another one, and with RuntimeError("generator didn't yield") -- not E --
\* if A suppresses E.
C4_EnterFailureOfSecond ==
    \A j \in 1 .. Len(log) :
        (n = 2 /\ EnterFailed(j, 2) /\ StackFinished) =>
            LET E == log[j].out.v
                x == ExitsOf(1)[1]
            IN
            /\ Len(ExitsOf(1)) = 1
            /\ x.arg = E
            /\ x.out.k = "true" => EnterFailedWith(ResRaise(DidNotYield(0)))
            /\ x.out.k = "false" => EnterFailedWith(ResRaise(E))
            /\ x.out.k = "raise" => EnterFailedWith(ResRaise(x.out.v))

\* B raised while the stack was being entered, A suppressed the exception,
\* and the caller got RuntimeError("generator didn't yield").
C4_Witness ==
    /\ n = 2 /\ StackFinished
    /\ \E j \in 1 .. Len(log) : EnterFailed(j, 2) /\ log[j].out.v = MockExc(2)
    /\ Len(ExitsOf(1)) = 1
    /\ ExitsOf(1)[1].out.k = "true"
    /\ result = ResRaise(DidNotYield(0))

-----------------------------------------------------------------------------
(* C5 -- the carried exception of a reverse pass.                          *)

\* The slot after a context's __exit__ was given slot s and answered out:
\* suppressing clears it, raising another exception overwrites it,
\* re-raising leaves it.
SlotAfter(s, out) ==
    CASE out.k = "true"  -> None
      [] out.k = "raise" -> out.v
      [] out.k = "false" -> s

\* What a reverse pass starts with, from the event ev just before it: the
\* exception the caller threw or raised (GeneratorExit for close), the
\* exception of a failed __enter__ or send, nothing after a context finished.
Injected(ev) ==
    CASE ev.op = "call" -> ev.arg
      [] ev.op \in {"__enter__", "send"} -> IF ev.out.k = "raise" THEN ev.out.v ELSE None

\* Each __exit__ of a pass is given the slot as the context before it left it.
SlotIsCarried ==
    \A j \in 2 .. Len(log) :
        log[j].op = "__exit__" =>
            log[j].arg = IF log[j - 1].op = "__exit__"
                         THEN SlotAfter(log[j - 1].arg, log[j - 1].out)
                         ELSE Injected(log[j - 1])

\* A reverse pass has just ended and the caller has the outcome of its call.
PassJustEnded ==
    /\ Len(log) >= 2
    /\ log[Len(log)].op = "to caller"
    /\ log[Len(log) - 1].op = "__exit__"

\* The slot after the outermost context of the pass that just ended.
FinalSlot == SlotAfter(log[Len(log) - 1].arg, log[Len(log) - 1].out)

\* C5 as claimed: one slot is carried through the pass, and the caller sees
\* exactly its content after the outermost context: no error if it is empty
\* (StopIteration, the end of a generator, is not counted as one), otherwise
\* the exception in it.
C5_AsClaimed ==
    /\ SlotIsCarried
    /\ PassJustEnded =>
          IF IsExc(FinalSlot)
          THEN result = ResRaise(FinalSlot)
          ELSE result.k = "raise" => result.v = StopIteration

\* What the caller's call c gives when the pass leaves slot s.
SeenByCaller(c, s) ==
    CASE c = "close" /\ s = GeneratorExit -> ResOk
      [] IsExc(s) -> ResRaise(s)
      [] c = "enter" -> ResRaise(DidNotYield(0))
      [] c \in {"send", "throw"} -> ResRaise(StopIteration)
      [] OTHER -> ResOk

\* C5 (amended): one slot is carried through the pass (suppressing clears it,
\* raising another exception overwrites it, re-raising leaves it). If it
\* holds an exception after the outermost context, that exception is raised
\* to the caller -- the replacement written last, otherwise the injected
\* exception itself -- except that gen.close() returns normally when the
\* slot still holds its GeneratorExit. If it is empty, no exception of a
\* context reaches the caller, but the call ends as on a finished generator:
\* leaving the with block and gen.close() end normally, gen.send() and
\* gen.throw() raise StopIteration, and entering the stack fails with
\* RuntimeError("generator didn't yield").
C5_CarriedSlot ==
    /\ SlotIsCarried
    /\ PassJustEnded =>
          /\ exc_info = FinalSlot
          /\ result = SeenByCaller(log[Len(log)].st, FinalSlot)

\* gen.throw(e) on three contexts: the innermost re-raised e, the middle one
\* raised its own exception, the outermost re-raised that: the caller got
\* the exception of the middle context.
C5_Witness ==
    /\ n = 3 /\ PassJustEnded /\ log[Len(log)].st = "throw"
    /\ Len(ExitsOf(3)) = 1 /\ ExitsOf(3)[1].arg = CallerExc(1) /\ ExitsOf(3)[1].out.k = "false"
    /\ Len(ExitsOf(2)) = 1 /\ ExitsOf(2)[1].out = [k |-> "raise", v |-> MockExc(2)]
    /\ Len(ExitsOf(1)) = 1 /\ ExitsOf(1)[1].arg = MockExc(2) /\ ExitsOf(1)[1].out.k = "false"
    /\ result = ResRaise(MockExc(2))

-----------------------------------------------------------------------------
(* C6 -- an exception raised in the with block.                            *)

\* The j-th event is the with block raising into a stack that has not finished.
RaisedInWith(j) ==
    /\ log[j].op = "call" /\ log[j].st = "raise"
    /\ j < Len(log) /\ log[j + 1].op # "to caller"

\* The pass over the contexts that follows the j-th event goes from the
\* innermost context outwards, and each context receives what the contexts
\* inside it left of the exception e: e itself if they all re-raised it, the
\* replacement if one of them raised another exception.
OfferedInnermostFirst(j) ==
    LET e == log[j].arg
        pass == CtxEvsAfter(j)
    IN  /\ \A l \in 1 .. Len(pass) : pass[l].op = "__exit__"
        /\ IsPrefix(CtxOf(pass), Down(n))
        /\ StackFinished => CtxOf(pass) = Down(n)
        /\ Len(pass) >= 1 => pass[1].arg = e
        /\ \A l \in 1 .. Len(pass) :
              (\A m \in 1 .. l - 1 : pass[m].out.k = "false") => pass[l].arg = e
        /\ \A m \in 1 .. Len(pass) : \A l \in m + 1 .. Len(pass) :
              (/\ pass[m].out.k = "raise"
               /\ \A q \in m + 1 .. l - 1 : pass[q].out.k = "false")
              => pass[l].arg = pass[m].out.v

\* C6 as claimed: an exception raised in the with block is offered to the
\* contexts from the innermost to the outermost, each receiving what the
\* contexts inside it left, and once a context handles it every context
\* further out is exited with no exception.
C6_AsClaimed ==
    \A j \in 1 .. Len(log) :
        RaisedInWith(j) =>
            LET pass == CtxEvsAfter(j) IN
            /\ OfferedInnermostFirst(j)
            /\ \A m \in 1 .. Len(pass) : \A l \in m + 1 .. Len(pass) :
                  pass[m].out.k = "true" => pass[l].arg = None

\* C6 (amended): an exception raised in the with block is offered to the
\* contexts from the innermost to the outermost, each receiving what the
\* contexts inside it left, and once a context handles it the contexts
\* further out are exited with no exception -- up to the first of them that
\* raises while it is exited: what it raises is carried to the contexts
\* further out than it.
C6_RaiseInWithBlock ==
    \A j \in 1 .. Len(log) :
        RaisedInWith(j) =>
            LET pass == CtxEvsAfter(j) IN
            /\ OfferedInnermostFirst(j)
            /\ \A m \in 1 .. Len(pass) : \A l \in m + 1 .. Len(pass) :
                  (/\ pass[m].out.k = "true"
                   /\ \A q \in m + 1 .. l - 1 : pass[q].out.k # "raise")
                  => pass[l].arg = None

\* The with block of a stack of three raised: the innermost context
\* re-raised the exception, the middle one handled it, and the outermost was
\* exited with no exception.
C6_Witness ==
    /\ n = 3 /\ StackFinished
    /\ \E j \in 1 .. Len(log) :
          /\ RaisedInWith(j) /\ log[j].arg = CallerExc(0)
          /\ LET pass == CtxEvsAfter(j) IN
                /\ Len(pass) = 3
                /\ pass[1].out.k = "false"
                /\ pass[2].arg = CallerExc(0) /\ pass[2].out.k = "true"
                /\ pass[3].arg = None /\ pass[3].out.k = "false"
    /\ result = ResOk

-----------------------------------------------------------------------------
(* C7 -- an error reaches the caller only after the contexts are exited.   *)

\* The call that just ended -- entering the stack, a send, a throw or
\* leaving the with block -- raised to the caller.
ErrorToCaller ==
    /\ call = "none" /\ Len(log) >= 1
    /\ log[Len(log)].op = "to caller"
    /\ log[Len(log)].st \in {"enter", "send", "throw", "exit", "raise"}
    /\ log[Len(log)].out.k = "raise"

\* Every call of the caller is answered once: the log is a sequence of calls,
\* each followed by operations on contexts and then by its one outcome.
OneOutcomePerCall ==
    LET ce == SelectSeq(log, LAMBDA e : e.ctx = 0) IN
    \A k \in 1 .. Len(ce) :
        IF k % 2 = 1
        THEN ce[k].op = "call"
        ELSE ce[k].op = "to caller" /\ ce[k].st = ce[k - 1].st

\* The contexts whose __enter__ returned.
EnteredCtxs == LET s == EnterSeq IN {s[j] : j \in 1 .. Len(s)}

\* C7 as claimed: whenever entering the stack, a send, a throw or leaving
\* the with block raises an error to the caller, every entered context has
\* had its __exit__ call completed, and that call raised exactly one error.
C7_AsClaimed ==
    /\ OneOutcomePerCall
    /\ ErrorToCaller =>
          LET exits == ExitSeq IN
          \A i \in EnteredCtxs : Len(SelectSeq(exits, LAMBDA x : x = i)) = 1

\* The RuntimeError contextlib raises when the with block is left and the
\* generator of the stack yields again instead of finishing.
StackDidNotStop == {ResRaise(DidNotStop(0)), ResRaise(DidNotStopAfterThrow(0))}

\* gen.py removed ctxs[i] from `entered` during a round: its generator
\* finished or raised when it was sent to or thrown into, or gen.close() on
\* it raised.
DroppedInRound(i) ==
    \E j \in 1 .. Len(log) :
        /\ log[j].ctx = i
        /\ log[j].op \in {"send", "throw", "close"}
        /\ log[j].out.k \in {"return", "raise"}

\* C7 (amended): whenever entering the stack, a send, a throw or leaving the
\* with block raises an error to the caller, exactly one error is raised for
\* that call and, unless the error is contextlib's RuntimeError for a stack
\* that yielded again when the with block was left, the stack has finished
\* and every entered context has had its one __exit__ call completed -- or,
\* in gen.py, was dropped from `entered` during a round (its generator
\* finished or raised, or gen.close() on it raised) and gets no __exit__ call.
C7_ExitedBeforeError ==
    /\ OneOutcomePerCall
    /\ ErrorToCaller =>
          \/ result \in StackDidNotStop /\ ~StackFinished
          \/ /\ StackFinished
             /\ LET exits == ExitSeq IN
                \A i \in EnteredCtxs :
                   LET nexits == Len(SelectSeq(exits, LAMBDA x : x = i)) IN
                   \/ nexits = 1
                   \/ impl = "gen" /\ nexits = 0 /\ DroppedInRound(i)

\* A send to a stack of three (stack/sync.py) in which the innermost context
\* raised: all three were exited and the caller's send raised that exception.
C7_Witness ==
    /\ impl = "sync" /\ n = 3 /\ ErrorToCaller
    /\ log[Len(log)].st = "send"
    /\ result = ResRaise(MockExc(3))
    /\ ExitSeq = <<3, 2, 1>>

-----------------------------------------------------------------------------
(* C8 -- operations on a context whose generator is exhausted.             *)

\* The operations of the stack on contexts.
CtxEvs == SelectSeq(log, LAMBDA e : e.ctx # 0)

\* C8 as claimed: the stack never invokes send, throw, close or __exit__ on
\* a context whose generator is already exhausted.
C8_AsClaimed ==
    LET evs == CtxEvs IN
    \A j \in 1 .. Len(evs) : evs[j].st # "closed"

\* The operation e on a context ends the stack's dealings with it: its
\* __enter__ failed, its __exit__ was called or, in gen.py, it was removed
\* from `entered` in a round (lines 102, 109, 113).
LastUse(e) ==
    \/ e.op = "__exit__"
    \/ e.op = "__enter__" /\ e.out.k = "raise"
    \/ impl = "gen" /\ e.op \in {"send", "throw", "close"} /\ e.out.k \in {"return", "raise"}

\* C8 (amended): the stack never invokes an operation on a context after
\* that context's __exit__ was called, after its __enter__ failed or, in
\* gen.py, after it was removed from `entered` in a round. It does operate
\* on exhausted generators: stack/sync.py calls __exit__, once and nothing
\* else, on the context that finished or raised during a send round; gen.py
\* keeps a context that ctx.gen.close() has closed in `entered`, and that
\* context still gets __exit__ or the operation of a later round. (An
\* operation on an exhausted generator always comes right after the
\* operation that exhausted it or after another close().)
C8_NoUseAfterExhausted ==
    \A i \in Ctxs :
        LET evs == SelectSeq(log, LAMBDA e : e.ctx = i) IN
        \A j \in 1 .. Len(evs) :
            /\ j < Len(evs) => ~LastUse(evs[j])
            /\ evs[j].st = "closed" =>
                  /\ j > 1
                  /\ evs[j - 1].st # "created"
                  /\ IF impl = "sync"
                     THEN /\ evs[j].op = "__exit__"
                          /\ evs[j - 1].st = "suspended"
                          /\ evs[j - 1].op = "send"
                          /\ evs[j - 1].out.k \in {"return", "raise"}
                     ELSE /\ evs[j - 1].op = "close"
                          /\ evs[j - 1].out.k = "ok"

\* In a send round of stack/sync.py the inner of two contexts finished; its
\* __exit__ was then called although its generator was exhausted, and the
\* outer context was exited after it.
C8_Witness ==
    /\ impl = "sync" /\ n = 2 /\ StackFinished
    /\ \E j \in 1 .. Len(CtxEvs) - 2 :
          /\ CtxEvs[j] = CtxEv("send", 2, "suspended", SentVal(1), [k |-> "return", v |-> None])
          /\ CtxEvs[j + 1].op = "__exit__" /\ CtxEvs[j + 1].ctx = 2
          /\ CtxEvs[j + 1].st = "closed"
          /\ CtxEvs[j + 2].op = "__exit__" /\ CtxEvs[j + 2].ctx = 1
          /\ CtxEvs[j + 2].st = "suspended"

-----------------------------------------------------------------------------
(* C9 -- stack/sync.py: a context finishes during a send round.            *)

\* The j-th event is a send to a context whose generator then finished
\* without raising.
FinishedOnSend(j) == log[j].op = "send" /\ log[j].out.k = "return"

\* What the caller got from the call during which the j-th event happened,
\* if it has got it.
OutcomesAfter(j) ==
    SelectSeq(SubSeq(log, j + 1, Len(log)), LAMBDA e : e.op = "to caller")

\* After the j-th event no context receives the sent value any more: the
\* contexts are exited from the innermost to the outermost, the first of
\* them with no exception, and the round returns no list.
RoundEndsWithExits(j) ==
    LET pass == CtxEvsAfter(j)
        outs == OutcomesAfter(j)
    IN  /\ \A l \in 1 .. Len(pass) : pass[l].op = "__exit__"
        /\ IsPrefix(CtxOf(pass), Down(n))
        /\ StackFinished => CtxOf(pass) = Down(n)
        /\ Len(pass) >= 1 => pass[1].arg = None
        /\ Len(outs) >= 1 => outs[1].out.k # "list"

\* C9 as claimed: the first time a context's generator finishes without
\* raising during a send round, no context further out receives the sent
\* value, no list is returned for the round, __exit__ is called with no
\* exception on the entered contexts from innermost to outermost, and the
\* caller's gen.send() raises StopIteration.
C9_AsClaimed ==
    \A j \in 1 .. Len(log) :
        FinishedOnSend(j) =>
            LET pass == CtxEvsAfter(j)
                outs == OutcomesAfter(j)
            IN  /\ RoundEndsWithExits(j)
                /\ \A l \in 1 .. Len(pass) : pass[l].arg = None
                /\ (Len(outs) >= 1 /\ outs[1].st = "send") =>
                      outs[1].out = [k |-> "raise", v |-> StopIteration]

\* C9 (amended): the first time a context's generator finishes without
\* raising during a send round, no context further out receives the sent
\* value, no list is returned for the round and __exit__ is called on the
\* entered contexts from innermost to outermost -- with no exception as long
\* as none of these __exit__ calls has raised; the caller's gen.send() raises
\* StopIteration unless an exception is left after the outermost __exit__,
\* and then raises that exception.
C9_FinishOnSend ==
    \A j \in 1 .. Len(log) :
        FinishedOnSend(j) =>
            LET pass == CtxEvsAfter(j)
                outs == OutcomesAfter(j)
                left == IF pass = <<>> THEN None
                        ELSE SlotAfter(pass[Len(pass)].arg, pass[Len(pass)].out)
            IN  /\ RoundEndsWithExits(j)
                /\ \A l \in 1 .. Len(pass) :
                      (\A m \in 1 .. l - 1 : pass[m].out.k # "raise") => pass[l].arg = None
                /\ (Len(outs) >= 1 /\ outs[1].st = "send") =>
                      outs[1].out = [k |-> "raise",
                                     v |-> IF IsExc(left) THEN left ELSE StopIteration]

\* A send to a stack of three: the innermost context yielded, the middle one
\* finished, the outermost was not sent to; all three were exited with no
\* exception, innermost first, and the caller's send raised StopIteration.
C9_Witness ==
    /\ n = 3 /\ StackFinished
    /\ \E j \in 2 .. Len(log) :
          /\ FinishedOnSend(j) /\ log[j].ctx = 2
          /\ log[j - 1].op = "send" /\ log[j - 1].ctx = 3 /\ log[j - 1].out.k = "yield"
          /\ LET pass == CtxEvsAfter(j) IN
                /\ CtxOf(pass) = <<3, 2, 1>>
                /\ \A l \in 1 .. 3 : pass[l].arg = None /\ pass[l].out.k = "false"
    /\ result = ResRaise(StopIteration)
    /\ log[Len(log)].st = "send"

-----------------------------------------------------------------------------
(* C10 -- gen.py: a context finishes during a send round.                  *)

\* The contexts the values of list L came from, in the order of the list.
SourcesOf(L) == [j \in 1 .. Len(L) |-> L[j].src]

\* The last call of the caller, the operations on contexts made during it
\* and whether one of them raised.
OpsOfLastCall ==
    SelectSeq(SubSeq(log, LastCallIdx + 1, Len(log)), LAMBDA e : e.ctx # 0)

NoRaiseInLastCall ==
    LET ops == OpsOfLastCall IN \A l \in 1 .. Len(ops) : ops[l].out.k # "raise"

\* A context whose generator finished when it was sent to is dropped: the
\* stack makes no further call on it, and the round goes on with a send of
\* the same value to a context further out, or ends.
DroppedAndRoundGoesOn ==
    \A j \in 1 .. Len(log) :
        FinishedOnSend(j) =>
            /\ \A m \in j + 1 .. Len(log) : log[m].ctx # log[j].ctx
            /\ log[j].ctx \notin {entered[k] : k \in 1 .. Len(entered)}
            /\ j < Len(log) =>
                  \/ log[j + 1].op = "to caller"
                  \/ /\ log[j + 1].op = "send"
                     /\ log[j + 1].ctx < log[j].ctx
                     /\ log[j + 1].arg = log[j].arg

\* A list handed to the caller after a send holds values of contexts that
\* are still entered only, nothing of the contexts dropped; after a send
\* during which no context raised it holds one value of each context that
\* is still entered, last entered first.  (A context that yields when an
\* exception is thrown into it stays entered, and gen.py does not collect
\* that value.)
ListsOfRemaining ==
    /\ \A j \in 1 .. Len(log) :
          (log[j].op = "to caller" /\ log[j].st = "send" /\ log[j].out.k = "list") =>
              \A k \in 1 .. j - 1 :
                  FinishedOnSend(k) =>
                      \A l \in 1 .. Len(log[j].list) : log[j].list[l].src # log[k].ctx
    /\ (pc = "yield" /\ LastCallIdx > 0 /\ log[LastCallIdx].st = "send") =>
          /\ result = ResList(ys)
          /\ entered # <<>>
          /\ \A l \in 1 .. Len(ys) : \E k \in 1 .. Len(entered) : ys[l].src = entered[k]
          /\ NoRaiseInLastCall => SourcesOf(ys) = Reverse(entered)

\* C10: in the round-based stack_gen_ctxs of gen.py, a context whose
\* generator finishes without error during a send round is dropped from the
\* entered set (no later call is made on it, not even __exit__) and
\* contributes no value to that round; the round continues with the contexts
\* further out; the lists of this and of later sends hold the values of the
\* contexts that remain (all of them when no context raised in the round);
\* and the stack completes normally -- it finishes
\* during a send or the final next() without any context having raised --
\* only after a round that left no context entered, so that no __exit__ call
\* was needed.
C10_DropAndContinue ==
    /\ DroppedAndRoundGoesOn
    /\ ListsOfRemaining
    /\ (/\ StackFinished /\ call = "none"
        /\ LastCallIdx > 0 /\ log[LastCallIdx].st \in {"send", "exit"}
        /\ Len(log) > LastCallIdx + 1
        /\ NoRaiseInLastCall)
       => /\ \A l \in 1 .. Len(OpsOfLastCall) :
                OpsOfLastCall[l].op = "send" /\ OpsOfLastCall[l].out.k = "return"
          /\ entered = <<>>
          /\ result = IF log[LastCallIdx].st = "send" THEN ResRaise(StopIteration) ELSE ResOk

\* Two contexts: in the first send round the inner one finished and the
\* outer one yielded, and the caller got a list of one value; the second
\* send went to the outer context only and again gave a list of its value.
C10_Witness ==
    /\ impl = "gen" /\ n = 2 /\ pc = "yield" /\ call = "none"
    /\ entered = <<1>>
    /\ ncalls = 2
    /\ \E j \in 1 .. Len(log) :
          /\ FinishedOnSend(j) /\ log[j].ctx = 2 /\ log[j].arg = SentVal(1)
          /\ log[j + 1].op = "send" /\ log[j + 1].ctx = 1 /\ log[j + 1].out.k = "yield"
          /\ log[j + 2] = RetEv("send", ResList(<<YieldVal(1, 2)>>))
    /\ result = ResList(<<YieldVal(1, 3)>>)

-----------------------------------------------------------------------------
(* C13 -- stack/sync.py: one pass of sends, last entered first.            *)

\* The events of the caller's last call that follow the call itself.
AfterLastCall == SubSeq(log, LastCallIdx + 1, Len(log))

\* A round of sends in which every context yielded: the k-th operation of
\* the round is a send of v to ctxs[n + 1 - k], which yields.
IsSendPass(evs, v) ==
    /\ Len(evs) <= n
    /\ \A k \in 1 .. Len(evs) :
          /\ evs[k].op = "send"
          /\ evs[k].ctx = n + 1 - k
          /\ evs[k].arg = v
          /\ evs[k].out.k = "yield"

\* C13: on each gen.send(v) to the stack, as long as no context finishes or
\* raises, every context's generator receives v exactly once, the contexts
\* are advanced from the last entered to the first entered, and the list
\* returned to the caller holds their yielded values in that same
\* last-entered-first order.
C13_SendPass ==
    (LastCallIdx > 0 /\ log[LastCallIdx].st = "send" /\ pc # "done") =>
        LET evs == AfterLastCall
            v == log[LastCallIdx].arg
            ops == SelectSeq(evs, LAMBDA e : e.ctx # 0)
        IN  (\A k \in 1 .. Len(ops) : ops[k].out.k = "yield") =>
                /\ IsSendPass(ops, v)
                /\ call = "none" =>
                      /\ Len(ops) = n
                      /\ Len(evs) = n + 1
                      /\ result = ResList([k \in 1 .. n |-> ops[k].out.v])
                      /\ evs[n + 1] = RetEv("send", result)

\* Three contexts, one send: the value went to contexts 3, 2, 1 in that
\* order and the caller has their three values in that order.
C13_Witness ==
    /\ impl = "sync" /\ n = 3 /\ ncalls = 1 /\ call = "none" /\ pc = "yield2"
    /\ log[LastCallIdx] = CallEv("send", SentVal(1))
    /\ CtxOf(AfterLastCall) = <<3, 2, 1, 0>>
    /\ SourcesOf(result.list) = <<3, 2, 1>>
    /\ \A k \in 1 .. 3 : AfterLastCall[k].arg = SentVal(1)

-----------------------------------------------------------------------------
(* C14 -- the order of the values in the lists handed to the caller.       *)

\* An event that is not part of an error-free use: a context raised, or the
\* caller threw an exception in, closed the stack or raised in the with block.
IsErrorEv(e) ==
    \/ e.ctx # 0 /\ e.out.k = "raise"
    \/ e.op = "call" /\ e.st \in {"throw", "close", "raise"}

\* The index of the first such event (Len(log) + 1 if there is none).
FirstError ==
    IF \E j \in 1 .. Len(log) : IsErrorEv(log[j])
    THEN CHOOSE j \in 1 .. Len(log) :
            IsErrorEv(log[j]) /\ \A m \in 1 .. j - 1 : ~IsErrorEv(log[m])
    ELSE Len(log) + 1

Ascending(s) == \A k \in 1 .. Len(s) - 1 : s[k] < s[k + 1]
Descending(s) == \A k \in 1 .. Len(s) - 1 : s[k] > s[k + 1]

\* C14 as claimed: for contexts that always yield and then finish without
\* error, the values in the list returned on entering and in every list
\* returned by a send appear in the order the contexts were entered.
C14_AsClaimed ==
    LET f == FirstError IN
    \A j \in 1 .. Len(log) :
        (j < f /\ log[j].op = "to caller" /\ log[j].out.k = "list") =>
            Ascending(SourcesOf(log[j].list))

\* C14 (amended): for contexts that always yield and then finish without
\* error, the values in the list returned on entering the stack appear in
\* the order the contexts were entered (ctxs[0] first), and the values in
\* every list returned by a send appear in the reverse of that order (the
\* context entered last first).
C14_ListOrder ==
    LET f == FirstError IN
    \A j \in 1 .. Len(log) :
        (j < f /\ log[j].op = "to caller" /\ log[j].out.k = "list") =>
            IF log[j].st = "enter"
            THEN SourcesOf(log[j].list) = [k \in 1 .. n |-> k]
            ELSE /\ log[j].st = "send"
                 /\ log[j].list # <<>>
                 /\ Descending(SourcesOf(log[j].list))

\* Two contexts without any error: entering gave the values of contexts 1, 2
\* and the send gave the values of contexts 2, 1.
C14_Witness ==
    /\ n = 2 /\ call = "none" /\ ncalls = 1 /\ FirstError = Len(log) + 1
    /\ \E j \in 1 .. Len(log) :
          /\ log[j].op = "to caller" /\ log[j].st = "enter"
          /\ SourcesOf(log[j].list) = <<1, 2>>
    /\ log[Len(log)].op = "to caller" /\ log[Len(log)].st = "send"
    /\ SourcesOf(result.list) = <<2, 1>>

-----------------------------------------------------------------------------
(* C15 -- stack/sync.py: gen.close().                                      *)

\* The index of the event that ends the call begun at log[c] (Len(log) + 1
\* while the call is in progress).
NextRet(c) ==
    IF \E m \in c + 1 .. Len(log) : log[m].op = "to caller"
    THEN CHOOSE m \in c + 1 .. Len(log) :
            log[m].op = "to caller" /\ \A l \in c + 1 .. m - 1 : log[l].op # "to caller"
    ELSE Len(log) + 1

\* The close() begun at log[c] made no call on any context and raised nothing.
CloseIsNoOp(c) ==
    /\ c < Len(log)
    /\ log[c + 1] = RetEv("close", ResOk)

\* The close() begun at log[c] exits every context, last entered first,
\* each of them once.
CloseExitsAll(c) ==
    LET r == NextRet(c)
        ops == SubSeq(log, c + 1, r - 1)
    IN  /\ \A k \in 1 .. Len(ops) : ops[k].op = "__exit__"
        /\ IsPrefix(CtxOf(ops), Down(n))
        /\ r <= Len(log) => CtxOf(ops) = Down(n)

\* Before log[c] the caller was handed an error or the end of the stack.
EndedBefore(c) ==
    \E m \in 1 .. c - 1 : log[m].op = "to caller" /\ log[m].out.k \in {"raise", "ok"}

\* Before log[c] the generator of the stack finished: the caller was handed
\* its end or an exception it raised.  RuntimeError("generator didn't stop")
\* is raised by the with statement when the generator yields again, and
\* leaves it suspended.
FinishedBefore(c) ==
    \E m \in 1 .. c - 1 :
        /\ log[m].op = "to caller" /\ log[m].out.k \in {"raise", "ok"}
        /\ log[m].out.v # DidNotStop(0)

\* C15 as claimed: gen.close() on the suspended stack exits every entered
\* context exactly once; a second close(), a close() after the stack has
\* completed normally and a close() after an error was already raised to the
\* caller call nothing on any context and raise no error.
C15_AsClaimed ==
    \A c \in 1 .. Len(log) :
        (log[c].op = "call" /\ log[c].st = "close") =>
            IF EndedBefore(c) THEN CloseIsNoOp(c) ELSE CloseExitsAll(c)

\* C15 (amended): gen.close() on the suspended stack exits every entered
\* context exactly once; a second close(), a close() after the stack has
\* completed normally and a close() after the generator of the stack has
\* raised an error to the caller call nothing on any context and raise no
\* error.  After RuntimeError("generator didn't stop") from leaving the with
\* block the stack is still suspended, and close() exits the contexts then.
C15_Close ==
    \A c \in 1 .. Len(log) :
        (log[c].op = "call" /\ log[c].st = "close") =>
            IF FinishedBefore(c) THEN CloseIsNoOp(c) ELSE CloseExitsAll(c)

\* Two contexts: the first close() exited both, the second did nothing.
C15_Witness ==
    /\ impl = "sync" /\ n = 2 /\ ncalls = 2 /\ call = "none"
    /\ \E c \in 1 .. Len(log) :
          /\ Len(log) = c + 5
          /\ log[c] = CallEv("close", GeneratorExit)
          /\ CtxOf(SubSeq(log, c + 1, c + 2)) = <<2, 1>>
          /\ log[c + 1].op = "__exit__" /\ log[c + 2].op = "__exit__"
          /\ log[c + 3] = RetEv("close", ResOk)
          /\ log[c + 4] = CallEv("close", GeneratorExit)
          /\ log[c + 5] = RetEv("close", ResOk)

-----------------------------------------------------------------------------
(* C16 -- stack/sync.py: gen.throw(E) on the suspended stack.              *)

\* The exception left by the __exit__ calls ops of a pass that began with e.
LeftBy(ops, e) ==
    IF ops = <<>> THEN e ELSE SlotAfter(ops[Len(ops)].arg, ops[Len(ops)].out)

\* The gen.throw(E) begun at log[c], on the suspended stack: only __exit__
\* calls follow, on the contexts from the last entered to the first, the
\* first of them with E; the call raises what the pass leaves, or
\* StopIteration if nothing is left; the stack has finished and hands the
\* caller no list afterwards.
ThrowEndsStack(c) ==
    LET r == NextRet(c)
        ops == SubSeq(log, c + 1, r - 1)
    IN  /\ \A k \in 1 .. Len(ops) : ops[k].op = "__exit__"
        /\ IsPrefix(CtxOf(ops), Down(n))
        /\ ops # <<>> => ops[1].arg = log[c].arg
        /\ r <= Len(log) =>
              /\ CtxOf(ops) = Down(n)
              /\ log[r] = RetEv("throw", IF IsExc(LeftBy(ops, log[c].arg))
                                         THEN ResRaise(LeftBy(ops, log[c].arg))
                                         ELSE ResRaise(StopIteration))
              /\ pc = "done"
              /\ \A m \in r + 1 .. Len(log) : log[m].out.k # "list"

\* C16: after gen.throw(E) on the suspended stack (stack/sync.py), every
\* entered context is exited through __exit__ in reverse entry order and none
\* receives a send; the stack is then finished whether or not E was
\* suppressed: the throw call raises the surviving error, or StopIteration if
\* a context suppressed it, and no further list is ever returned.
C16_ThrowOnSuspended ==
    \A c \in 1 .. Len(log) :
        (log[c].op = "call" /\ log[c].st = "throw" /\ ~FinishedBefore(c)) =>
            ThrowEndsStack(c)

\* gen.throw(E) on two contexts, the inner one suppressed E: the throw
\* raised StopIteration, and the send that followed got StopIteration too.
C16_Witness ==
    /\ impl = "sync" /\ n = 2 /\ ncalls = 2 /\ call = "none"
    /\ \E c \in 1 .. Len(log) :
          /\ Len(log) = c + 5
          /\ log[c] = CallEv("throw", CallerExc(1))
          /\ log[c + 1].op = "__exit__" /\ log[c + 1].ctx = 2
          /\ log[c + 1].arg = CallerExc(1) /\ log[c + 1].out.k = "true"
          /\ log[c + 2].op = "__exit__" /\ log[c + 2].ctx = 1 /\ log[c + 2].arg = None
          /\ log[c + 3] = RetEv("throw", ResRaise(StopIteration))
          /\ log[c + 4] = CallEv("send", SentVal(2))
          /\ log[c + 5] = RetEv("send", ResRaise(StopIteration))

-----------------------------------------------------------------------------
(* C11 -- _wrap/with_.py: the list of return values.                       *)

\* The index of the send on which ctxs[i] finished (0 if it has not).
FinishedAt(i) ==
    IF \E j \in 1 .. Len(log) : FinishedOnSend(j) /\ log[j].ctx = i
    THEN CHOOSE j \in 1 .. Len(log) : FinishedOnSend(j) /\ log[j].ctx = i
    ELSE 0

\* The caller's last call was a send, it is over, and during it the last
\* context that had not finished did.
LastOneFinished ==
    /\ call = "none" /\ LastCallIdx > 0
    /\ log[LastCallIdx].st = "send"
    /\ \A i \in Ctxs : FinishedAt(i) > 0
    /\ \E i \in Ctxs : FinishedAt(i) > LastCallIdx

\* C11: when the implementations finish in different rounds, the send that
\* finishes the last remaining one ends the combined generator with a list
\* that has one entry per implementation, in the order in which the
\* implementations were entered, each entry being the return value of that
\* implementation, whichever finished first: the send raises
\* StopIteration with that list as its value.
C11_ReturnsInOrder ==
    LastOneFinished =>
        /\ pc = "done"
        /\ result.k = "raise" /\ result.v = StopIteration
        /\ Len(result.list) = n
        /\ \A i \in Ctxs : result.list[i] = RetVal(i)

\* Two implementations: the first finished on the first send, the second on
\* the second send, which raised StopIteration([rA, rB]).
C11_Witness ==
    /\ impl = "with" /\ n = 2 /\ LastOneFinished /\ ncalls = 2
    /\ FinishedAt(1) < LastCallIdx
    /\ FinishedAt(2) > LastCallIdx
    /\ result.list = <<RetVal(1), RetVal(2)>>

-----------------------------------------------------------------------------
(* C12 -- _wrap/with_.py: the order of the __exit__ calls.                 *)

\* ctxs[a] finished on a send in an earlier round than ctxs[b] did, or
\* ctxs[b] has not finished on a send.
FinishedEarlier(a, b) ==
    /\ FinishedAt(a) > 0
    /\ FinishedAt(b) = 0 \/ FinishedAt(b) > NextRet(FinishedAt(a))

\* The index of the __exit__ call on ctxs[i] (0 if there is none).
ExitAt(i) ==
    IF \E j \in 1 .. Len(log) : log[j].op = "__exit__" /\ log[j].ctx = i
    THEN CHOOSE j \in 1 .. Len(log) : log[j].op = "__exit__" /\ log[j].ctx = i
    ELSE 0

\* C12: when a context finishes in an earlier round than a context entered
\* after it (A at index 0 before B at index 1), the __exit__ call on the one
\* entered later still comes first: a context that finished early is exited
\* only after every context entered after it has been exited, and each of
\* them is exited once.
C12_ExitOrder ==
    /\ \A a \in Ctxs : \A b \in Ctxs :
          (a < b /\ FinishedEarlier(a, b) /\ ExitAt(a) > 0) =>
              /\ ExitAt(b) > 0
              /\ ExitAt(b) < ExitAt(a)
    /\ \A i \in Ctxs : Len(ExitsOf(i)) <= 1

\* Two contexts: A finished on the first send and B on the second; then
\* __exit__ was called on B and after that on A.
C12_Witness ==
    /\ impl = "with" /\ n = 2 /\ pc = "done"
    /\ FinishedAt(1) > 0 /\ FinishedAt(2) > NextRet(FinishedAt(1))
    /\ ExitSeq = <<2, 1>>

-----------------------------------------------------------------------------
(* C17 -- stack/async_.py, sequential: the same as stack/sync.py.          *)

\* What contextlib's synchronous __exit__ gives for the operation ev of the
\* log on a context whose body behaves as it did: on a generator that has
\* finished, next() raises StopIteration and throw(exc) raises exc, and
\* __exit__ returns a false value in both cases.
SyncExitOf(ev) ==
    IF ev.st = "closed" THEN [k |-> "false", v |-> None] ELSE ev.out

\* C17 as claimed: with sequential true, async_stack_gen_ctxs does what the
\* synchronous stack_gen_ctxs does with contexts that behave the same: the
\* same enter, send and exit operations in the same order, the same lists
\* and the same error handed to the caller (the nested with statements, run
\* on the log, never diverge from it), and every exit of a context answers
\* as the synchronous __exit__ does -- in particular, when a context raises
\* E during asend, its exit lets E go on and the caller receives E itself.
C17_AsClaimed ==
    (impl = "async" /\ sequential) =>
        /\ RefAfterLog.ph # "diverged"
        /\ \A j \in 1 .. Len(log) :
              log[j].op = "__exit__" => log[j].out = SyncExitOf(log[j])
-----------------------------------------------------------------------------
(* C18 -- stack/async_.py: the __aexit__ calls are awaited one at a time.  *)

\* The contexts whose __aexit__ is in progress.
ExitsInProgress == {x.ctx : x \in cur}

\* C18: whether sequential is true or false, at most one __aexit__ call is in
\* progress at any time, the calls that have finished were made in the
\* reverse order of the input list, and the call in progress is on a context
\* that comes before, in the input list, every context whose __aexit__ has
\* finished: each call starts only after the one before it has finished.
C18_ExitsOneAtATime ==
    impl = "async" =>
        LET done == ExitSeq IN
        /\ Cardinality(cur) <= 1
        /\ Descending(done)
        /\ \A i \in ExitsInProgress : \A k \in 1 .. Len(done) : i < done[k]

\* Three contexts entered concurrently: the __aexit__ of the last two have
\* finished, one of them by raising, and that of the first is in progress.
C18_Witness ==
    /\ impl = "async" /\ ~sequential /\ n = 3
    /\ ExitsInProgress = {1}
    /\ ExitSeq = <<3, 2>>
    /\ \E j \in 1 .. Len(log) : log[j].op = "__exit__" /\ log[j].out.k = "raise"
-----------------------------------------------------------------------------
(* C19 -- stack/async_.py, sequential false: one operation at a time on a  *)
(* context.                                                                *)

\* The contexts on which the task of an asyncio.gather call is still running
\* its __aenter__ or its asend.
TasksInProgress == {i \in Ctxs : task[i] = "running"}

\* C19 as claimed: with sequential false, no two operations on the same
\* context are ever in progress at the same time: __aexit__ never starts on
\* a context while the asend to it of the current round is still running,
\* so no __aexit__ finds the generator of its context running.
C19_AsClaimed ==
    (impl = "async" /\ ~sequential) =>
        /\ TasksInProgress \cap ExitsInProgress = {}
        /\ \A j \in 1 .. Len(log) :
              log[j].op = "__exit__" => log[j].st # "running"
-----------------------------------------------------------------------------
(* C20 -- stack/async_.py, sequential false: a failure while the contexts  *)
(* are being entered.                                                      *)

\* The asyncio.gather call of line 34 raised: an __aenter__ failed.
EnterGatherFailed == gather.kind = "enter" /\ gather.first # None

\* C20 as claimed: with sequential false, when the __aenter__ of a context
\* has failed, once the stack has finished and every __aenter__ that was in
\* progress has ended, __aexit__ has been called exactly once on every
\* context whose __aenter__ returned.
C20_AsClaimed ==
    (/\ impl = "async" /\ ~sequential
     /\ EnterGatherFailed
     /\ StackFinished /\ TasksInProgress = {}) =>
        \A i \in EnteredCtxs : Len(ExitsOf(i)) = 1
-----------------------------------------------------------------------------
(* C23 -- stack/sync.py: a context that finishes without yielding when it  *)
(* is entered.                                                             *)

\* The exceptions offered to the contexts exited after the failure err: the
\* first __exit__ of evs is given err, and each later one what the one before
\* it left (the same exception re-raised, another one, or None once handled).
OfferedFrom(err, evs) ==
    \A m \in 1 .. Len(evs) :
        evs[m].arg = IF m = 1 THEN err
                     ELSE SlotAfter(evs[m - 1].arg, evs[m - 1].out)

\* The failed __enter__ at the j-th event was handled as a failure of the
\* context: nothing but __exit__ calls follow, on the contexts entered
\* before it, last entered first, each offered what is left of the error,
\* and the contexts after it are never entered.
HandledAsEnterFailure(j) ==
    LET k == log[j].ctx
        after == CtxEvsAfter(j)
    IN  /\ \A m \in 1 .. Len(after) : after[m].op = "__exit__"
        /\ IsPrefix(CtxOf(after), Down(k - 1))
        /\ StackFinished => CtxOf(after) = Down(k - 1)
        /\ OfferedFrom(log[j].out.v, after)
        /\ \A i \in k + 1 .. n : gst[i] = "created"

\* C23: a context whose generator finishes without yielding when it is
\* entered makes __enter__ raise RuntimeError("generator didn't yield"), and
\* that failure is handled exactly as an exception raised by the body on
\* entering is: the contexts entered before are exited in reverse order and
\* offered the error, which each may re-raise, replace or handle, and the
\* contexts after it are never entered.
C23_NoYieldOnEnter ==
    \A j \in 1 .. Len(log) :
        /\ (log[j].op = "__enter__" /\ log[j].out.k # "value") =>
              /\ log[j].out.k = "raise"
              /\ HandledAsEnterFailure(j)
        /\ (log[j].op = "__enter__" /\ log[j].out.k = "value") =>
              log[j].out.v.type = "yield"

\* Of three contexts the third finished without yielding: the second was
\* offered RuntimeError("generator didn't yield") and handled it, the first
\* was exited with no exception, and the stack has finished.
C23_Witness ==
    /\ n = 3 /\ StackFinished
    /\ \E j \in 1 .. Len(log) :
          /\ log[j].op = "__enter__" /\ log[j].ctx = 3
          /\ log[j].out = [k |-> "raise", v |-> DidNotYield(3)]
          /\ Len(log) >= j + 2
          /\ log[j + 1].op = "__exit__" /\ log[j + 1].ctx = 2
          /\ log[j + 1].arg = DidNotYield(3) /\ log[j + 1].out.k = "true"
          /\ log[j + 2].op = "__exit__" /\ log[j + 2].ctx = 1
          /\ log[j + 2].arg = None
-----------------------------------------------------------------------------
(* C26 -- stack/sync.py: an empty list of context managers.                *)

\* What the caller's calls gave, in order: <<call, result>> pairs.
CallerSaw ==
    LET rets == SelectSeq(log, LAMBDA e : e.op = "to caller")
    IN  [j \in 1 .. Len(rets) |->
            <<rets[j].st, [k |-> rets[j].out.k, v |-> rets[j].out.v,
                           list |-> rets[j].list]>>]

\* C26: with no context manager, no operation on a context is ever made;
\* entering the stack yields the empty list; leaving the with block normally
\* while the stack is suspended raises nothing; and the first gen.send() ends
\* the stack at once: it raises StopIteration.
C26_EmptyStack ==
    n = 0 =>
        LET saw == CallerSaw IN
        /\ \A j \in 1 .. Len(log) : log[j].ctx = 0
        /\ \A j \in 1 .. Len(saw) :
              /\ saw[j][1] = "enter" => saw[j][2] = ResList(<<>>)
              /\ saw[j][1] = "exit" => saw[j][2] = ResOk
              /\ saw[j][1] = "send" => saw[j][2] = ResRaise(StopIteration)

\* No context: the stack was entered, gen.send() raised StopIteration, and
\* the with block was left without an exception.
C26_Witness ==
    /\ n = 0 /\ where = "after" /\ call = "none"
    /\ CallerSaw = << <<"enter", ResList(<<>>)>>,
                      <<"send", ResRaise(StopIteration)>>,
                      <<"exit", ResOk>> >>
-----------------------------------------------------------------------------
(* C27 -- stack/sync.py: a context raises while it handles a send.         *)

\* What the caller's call c gets when the stack finishes with slot left of
\* the carried error.
FinishedWith(c, slot) ==
    RetEv(c, IF IsExc(slot) THEN OnRaise(c, slot) ELSE OnReturn(c))

\* C27: when ctx.gen.send() of a context raises E, no other context is sent
\* to any more; __exit__ is called on every entered context, innermost
\* first -- those further in, which had already advanced in this round, the
\* one that raised, and those further out -- the first one offered E and
\* each later one what the one before it left; the stack then finishes: the
\* caller's gen.send() raises the error that is left, or StopIteration if
\* none is left, and no operation on a context is made after that.
C27_RaiseOnSend ==
    \A j \in 1 .. Len(log) :
        (log[j].op = "send" /\ log[j].out.k = "raise") =>
            LET after == CtxEvsAfter(j)
                e == j + n + 1
            IN  /\ \A m \in 1 .. Len(after) : after[m].op = "__exit__"
                /\ IsPrefix(CtxOf(after), Down(n))
                /\ OfferedFrom(log[j].out.v, after)
                /\ \A m \in j + 1 .. Len(log) :
                      m <= j + n => log[m].op = "__exit__"
                /\ Len(log) >= e =>
                      /\ StackFinished
                      /\ log[e] = FinishedWith(log[e].st,
                                     SlotAfter(log[e - 1].arg, log[e - 1].out))
                      /\ log[e].st \in {"send", "exit"}
                      /\ log[e].st = "send" =>
                            \/ log[e].out = [k |-> "raise", v |-> StopIteration]
                            \/ /\ log[e].out.k = "raise"
                               /\ log[e].out.v = SlotAfter(log[e - 1].arg, log[e - 1].out)
                               /\ log[e].out.v # None

\* Three contexts: in a send round the innermost advanced, the middle one
\* raised E; the innermost and the middle one let E go on, the outermost
\* handled it, gen.send() raised StopIteration, and a second gen.send() did
\* the same without touching a context.
C27_Witness ==
    /\ n = 3 /\ StackFinished /\ call = "none" /\ ncalls = 2
    /\ \E j \in 1 .. Len(log) :
          /\ log[j].op = "send" /\ log[j].ctx = 2
          /\ log[j].out = [k |-> "raise", v |-> MockExc(2)]
          /\ log[j - 1].op = "send" /\ log[j - 1].ctx = 3 /\ log[j - 1].out.k = "yield"
          /\ Len(log) = j + 6
          /\ log[j + 1].ctx = 3 /\ log[j + 1].arg = MockExc(2) /\ log[j + 1].out.k = "false"
          /\ log[j + 2].ctx = 2 /\ log[j + 2].out.k = "false"
          /\ log[j + 3].ctx = 1 /\ log[j + 3].out.k = "true"
          /\ log[j + 4] = RetEv("send", ResRaise(StopIteration))
          /\ log[j + 6] = RetEv("send", ResRaise(StopIteration))
-----------------------------------------------------------------------------
(* C28 -- stack/sync.py: a failure on entering that a context handles.     *)

\* The __enter__ at the j-th event failed, the stack has finished, and one
\* of the contexts exited after it handled (suppressed) what it was offered.
EnterFailureHandled(j) ==
    /\ log[j].op = "__enter__" /\ log[j].out.k = "raise"
    /\ StackFinished
    /\ \E m \in j + 1 .. Len(log) : log[m].op = "__exit__" /\ log[m].out.k = "true"

\* The __exit__ calls that follow the j-th event.
ExitsAfter(j) ==
    SelectSeq(SubSeq(log, j + 1, Len(log)), LAMBDA e : e.op = "__exit__")

\* C28 as claimed: if a context fails while the stack is being entered and
\* an already-entered context handles that failure, entering the stack
\* fails with RuntimeError("generator didn't yield").
C28_AsClaimed ==
    \A j \in 1 .. Len(log) :
        EnterFailureHandled(j) => EnterFailedWith(ResRaise(DidNotYield(0)))

\* C28 (amended): if a context fails with E while the stack is being entered
\* and an already-entered context handles the failure, entering the stack
\* never succeeds and never raises E: it fails with
\* RuntimeError("generator didn't yield") provided no exception is left
\* after the outermost __exit__, and otherwise -- a context further out than
\* the one that handled the failure raised when it was exited in turn, and
\* no context handled that -- with the exception that is left.
C28_HandledEnterFailure ==
    \A j \in 1 .. Len(log) :
        EnterFailureHandled(j) =>
            LET exits == ExitsAfter(j)
                last == exits[Len(exits)]
                left == SlotAfter(last.arg, last.out)
            IN  /\ left # log[j].out.v
                /\ \A m \in 1 .. Len(log) :
                      (log[m].op = "to caller" /\ log[m].st = "enter") =>
                          /\ log[m].out.k = "raise"
                          /\ log[m].out.v = IF left = None THEN DidNotYield(0) ELSE left

\* Of three contexts the third raised on entering and the second handled
\* the exception; the first, exited with no exception, raised one of its
\* own, which is what entering the stack failed with.
C28_Witness ==
    /\ n = 3 /\ StackFinished /\ call = "none"
    /\ Len(log) = 7
    /\ EnterFailureHandled(4)
    /\ log[4].ctx = 3 /\ log[4].out.v = MockExc(3)
    /\ log[5].ctx = 2 /\ log[5].out.k = "true"
    /\ log[6].ctx = 1 /\ log[6].arg = None /\ log[6].out = [k |-> "raise", v |-> MockExc(1)]
    /\ log[7] = RetEv("enter", ResRaise(MockExc(1)))
-----------------------------------------------------------------------------
(* C24 -- the list yielded on entering the stack.                          *)

\* The value __enter__ (__aenter__) of ctxs[i] returned; None if it has not.
EnterValue(i) ==
    LET evs == SelectSeq(log, LAMBDA e : e.op = "__enter__" /\ e.ctx = i
                                          /\ e.out.k = "value")
    IN  IF evs = <<>> THEN None ELSE evs[1].out.v

\* The contexts in the order in which their __enter__ (__aenter__) ended.
EnterEnded == CtxOf(SelectSeq(log, LAMBDA e : e.op = "__enter__"))

\* C24: the list that entering the stack gives the caller has one element
\* per context, the i-th being the value that ctxs[i] yielded when it was
\* entered -- for stack/sync.py and for stack/async_.py with sequential
\* true or false, in whatever order the __aenter__ calls ended.
C24_EnterList ==
    \A j \in 1 .. Len(log) :
        (log[j].op = "to caller" /\ log[j].st = "enter" /\ log[j].out.k = "list") =>
            /\ Len(log[j].list) = n
            /\ \A i \in 1 .. n :
                  /\ log[j].list[i] = EnterValue(i)
                  /\ log[j].list[i].type = "yield" /\ log[j].list[i].src = i

\* Three contexts entered concurrently: the __aenter__ of the last one ended
\* first and that of the first one second, and the list is in the order of
\* ctxs.
C24_Witness ==
    /\ impl = "async" /\ ~sequential /\ n = 3
    /\ EnterEnded = <<3, 1, 2>>
    /\ result = ResList(<<YieldVal(1, 1), YieldVal(2, 1), YieldVal(3, 1)>>)
-----------------------------------------------------------------------------
(* C25 -- stack/sync.py and stack/async_.py with sequential true: the      *)
(* contexts are entered one after the other, in the order of ctxs.         *)

\* C25: in the synchronous stack and in the asynchronous one with sequential
\* true, the m-th operation made on a context is the __enter__ of ctxs[m]
\* as long as the contexts are being entered -- each begins when the one
\* before it has returned -- and an operation other than __enter__ (a send
\* or an __exit__) is made only when all the contexts have been entered or
\* the __enter__ of one of them has failed; no context is entered after that.
C25_EnterInOrder ==
    (impl = "sync" \/ sequential) =>
        LET evs == CtxEvs IN
        \A m \in 1 .. Len(evs) :
            /\ evs[m].op = "__enter__" =>
                  /\ evs[m].ctx = m
                  /\ evs[m].st = "created"
                  /\ m > 1 => /\ evs[m - 1].op = "__enter__"
                              /\ evs[m - 1].out.k = "value"
            /\ (evs[m].op # "__enter__" /\ m > 1 /\ evs[m - 1].op = "__enter__") =>
                  \/ m = n + 1
                  \/ evs[m - 1].out.k = "raise"
            /\ m = 1 => evs[m].op = "__enter__"

\* Three contexts entered by the asynchronous stack with sequential true,
\* then sent to, the last one first.
C25_Witness ==
    /\ impl = "async" /\ sequential /\ n = 3
    /\ Len(CtxEvs) >= 4
    /\ CtxOf(SubSeq(CtxEvs, 1, 4)) = <<1, 2, 3, 3>>
    /\ CtxEvs[4].op = "send"
-----------------------------------------------------------------------------
(* C30 -- stack/async_.py, two contexts: the inner one raises on asend.    *)

\* The j-th event: the asend to the inner context, ctxs[1], raised, and
\* that exception is the one that ended the round.
InnerRaisedOnSend(j) ==
    /\ impl = "async" /\ n = 2
    /\ log[j].op = "send" /\ log[j].ctx = 2 /\ log[j].out.k = "raise"
    /\ sequential \/ gather.first = log[j].out.v

\* C30: in an asynchronous stack of two contexts (no patch_aexit), when the
\* asend to the inner context raises E, the __aexit__ of the inner context,
\* given E, raises RuntimeError("generator didn't stop after athrow()"); the
\* outer context is offered that RuntimeError and not E; the call of the
\* caller never raises E, and when the caller lets what its asend raised
\* leave the `async with` statement, what comes out of the statement is a
\* RuntimeError("generator didn't stop after athrow()").
C30_InnerRaisesOnAsend ==
    \A j \in 1 .. Len(log) :
        InnerRaisedOnSend(j) =>
            LET E == log[j].out.v
                inner == ExitsOf(2)
                outer == ExitsOf(1)
            IN  /\ \A m \in 1 .. Len(inner) :
                      /\ inner[m].arg = E
                      /\ inner[m].out = [k |-> "raise", v |-> DidNotStopAfterThrow(2)]
                /\ \A m \in 1 .. Len(outer) :
                      outer[m].arg = DidNotStopAfterThrow(2)
                /\ \A m \in j + 1 .. Len(log) :
                      log[m].op = "to caller" =>
                          /\ log[m].out.v # E
                          /\ log[m].st = "send" => log[m].out.k = "raise"
                          /\ log[m].st = "raise" =>
                                log[m].out = [k |-> "raise", v |-> DidNotStopAfterThrow(0)]

\* As in the test: the inner context raised E on asend, the outer one was
\* offered the RuntimeError and handled it, the asend of the caller raised
\* StopAsyncIteration, and the `async with` statement, left with it, raised
\* RuntimeError("generator didn't stop after athrow()").
C30_Witness ==
    /\ impl = "async" /\ sequential /\ n = 2 /\ where = "after"
    /\ \E j \in 1 .. Len(log) : InnerRaisedOnSend(j) /\ log[j].out.v = MockExc(2)
    /\ Len(ExitsOf(1)) = 1
    /\ ExitsOf(1)[1].arg = DidNotStopAfterThrow(2)
    /\ ExitsOf(1)[1].out.k = "true"
    /\ \E m \in 1 .. Len(log) : log[m] = RetEv("send", ResRaise(StopIteration))
    /\ result = ResRaise(DidNotStopAfterThrow(0))
-----------------------------------------------------------------------------
(* The hand-unrolled reference of the tests,                               *)
(* async_stack_dunder_enter (tests/stack/refs/async_/dunder.py): for one,  *)
(* two and three contexts, one try statement per context, nested with the  *)
(* first context outermost,                                                *)
(*     try:                                                                *)
(*         <the try statement of the next context, or the body>            *)
(*     except BaseException:                                               *)
(*         if ctx not in entered: raise                                    *)
(*         if not await ctx.__aexit__(exc_info): raise                    *)
(*     else:                                                               *)
(*         if ctx in entered: await ctx.__aexit__(None, None, None)        *)
(* around the body, which enters the contexts, yields the list, and sends  *)
(* to the contexts, the last one first, until StopAsyncIteration.  It is   *)
(* run on the history in the log: it is given the calls of the caller,     *)
(* what each context answered and when asyncio.gather raised, and must do  *)
(* the same operations and hand the caller the same results.               *)
(* ph: "idle"    not started                                               *)
(*     "enter"   sequential: entering; p is the context to enter next      *)
(*     "gather"  awaiting asyncio.gather (kind "enter" or "send")          *)
(*     "body"    suspended at a yield                                      *)
(*     "send"    sequential: sending; p is the context to send to next     *)
(*     "exit"    awaiting __aexit__ in the try statement of context d      *)
(*     "finish"  the outermost try statement is left                       *)
(*     "end"     finished; "late": a call made on the finished generator   *)
(*     "diverged" the log is not what the reference does                   *)

DunderInit ==
    [ph |-> "idle", d |-> 0, p |-> 0, exc |-> None, ys |-> <<>>, sent |-> None,
     c |-> "none", ent |-> {}, run |-> {}, kind |-> "none", first |-> None,
     vals |-> [i \in 1 .. MaxCtxs |-> None]]

DunderDiverged == [DunderInit EXCEPT !.ph = "diverged"]

\* The try statement of context d is reached with r.exc in flight (or none):
\* both clauses pass a context that is not in `entered` and await the
\* __aexit__ of one that is.
RECURSIVE DunderLevel(_, _)
DunderLevel(r, d) ==
    IF d = 0 THEN [r EXCEPT !.ph = "finish", !.d = 0]
    ELSE IF d \in r.ent THEN [r EXCEPT !.ph = "exit", !.d = d]
    ELSE DunderLevel(r, d - 1)

\* The body is left with exception e (None: normally).
DunderLeaveBody(r, e) == DunderLevel([r EXCEPT !.exc = e], n)

\* async_stack_dunder_enter_null and async_stack_dunder_enter_single take
\* no `sequential`: they await the one context directly.
DunderSequential == sequential \/ n <= 1

\* The caller calls the reference.
DunderOnCall(r, ev) ==
    LET c == ev.st IN
    CASE r.ph = "idle" /\ c = "enter" ->
            IF DunderSequential
            THEN [r EXCEPT !.ph = "enter", !.p = 1, !.c = c]
            ELSE [r EXCEPT !.ph = "gather", !.kind = "enter", !.run = Ctxs, !.c = c]
      [] r.ph = "body" /\ c \in {"send", "exit"} ->
            IF n = 0
            THEN \* async_stack_dunder_enter_null: nothing follows `yield []`
                 DunderLeaveBody([r EXCEPT !.c = c], None)
            ELSE IF DunderSequential
            THEN [r EXCEPT !.ph = "send", !.p = n, !.sent = ev.arg,
                           !.ys = <<>>, !.c = c]
            ELSE [r EXCEPT !.ph = "gather", !.kind = "send", !.run = Ctxs,
                           !.sent = ev.arg, !.c = c]
      [] r.ph = "body" /\ c \in {"throw", "close", "raise"} ->
            DunderLeaveBody([r EXCEPT !.c = c], ev.arg)
      [] r.ph = "end" -> [r EXCEPT !.ph = "late", !.c = c]
      [] OTHER -> DunderDiverged

\* The list asyncio.gather returns to the reference.
DunderGathered(r) ==
    IF r.kind = "enter" THEN [q \in 1 .. n |-> r.vals[q]]
    ELSE [q \in 1 .. n |-> r.vals[n + 1 - q]]

\* What the reference hands the caller, if it is at a point where it does.
DunderResult(r) ==
    CASE r.ph = "enter" /\ r.p = n + 1 -> OnYield(r.c, r.ys)
      [] r.ph = "send" /\ r.p = 0 -> OnYield(r.c, r.ys)
      [] r.ph = "gather" /\ r.run = {} /\ r.first = None ->
            OnYield(r.c, DunderGathered(r))
      [] r.ph = "finish" ->
            IF IsExc(r.exc) THEN OnRaise(r.c, r.exc) ELSE OnReturn(r.c)
      [] OTHER -> ResNone

\* The caller gets the result ev of its call.
DunderOnReturn(r, ev) ==
    IF r.ph = "late" /\ ev.st = r.c THEN [r EXCEPT !.ph = "end"]
    ELSE LET res == DunderResult(r) IN
         IF /\ res # ResNone
            /\ ev.st = r.c
            /\ ev.out = [k |-> res.k, v |-> res.v]
            /\ ev.list = res.list
         THEN [r EXCEPT !.ph = IF r.ph = "finish" THEN "end" ELSE "body"]
         ELSE DunderDiverged

\* The exception with which a task of asyncio.gather ended, None if it
\* returned a value.
DunderTaskException(ev) ==
    CASE ev.op = "__enter__" -> IF ev.out.k = "value" THEN None ELSE ev.out.v
      [] ev.out.k = "yield"  -> None
      [] ev.out.k = "return" -> StopIteration
      [] ev.out.k = "raise"  -> ev.out.v

\* A task of asyncio.gather ended: _enter(ctx) adds the context to `entered`
\* when __aenter__ returned; the first exception is the one gather raises.
DunderOnTask(r, ev) ==
    LET i == ev.ctx
        e == DunderTaskException(ev)
        kind == IF ev.op = "__enter__" THEN "enter" ELSE "send"
    IN  IF \/ i \notin r.run
           \/ kind # r.kind
           \/ (kind = "send" /\ ev.arg # r.sent)
        THEN DunderDiverged
        ELSE [r EXCEPT !.run = r.run \ {i},
                       !.ent = IF kind = "enter" /\ e = None
                               THEN r.ent \cup {i} ELSE r.ent,
                       !.vals = IF e = None THEN [r.vals EXCEPT ![i] = ev.out.v]
                                ELSE r.vals,
                       !.first = IF r.ph = "gather" /\ r.first = None
                                 THEN e ELSE r.first]

\* asyncio.gather raises in the reference: `except StopAsyncIteration: pass`
\* around the sends, `except BaseException` of the innermost try statement
\* otherwise.
DunderOnGather(r, ev) ==
    IF r.ph = "gather" /\ r.first # None /\ ev.out.v = r.first /\ ev.st = r.kind
    THEN DunderLeaveBody(r, IF r.kind = "send" /\ r.first = StopIteration
                            THEN None ELSE r.first)
    ELSE DunderDiverged

\* sequential: await _enter(ctx) of the context r.p gave out.
DunderOnEnter(r, ev) ==
    IF r.ph = "enter" /\ ev.ctx = r.p /\ r.p <= n
    THEN IF ev.out.k = "value"
         THEN [r EXCEPT !.p = r.p + 1, !.ent = r.ent \cup {ev.ctx},
                        !.ys = Append(r.ys, ev.out.v)]
         ELSE DunderLeaveBody(r, ev.out.v)
    ELSE DunderDiverged

\* sequential: await ctx.gen.asend(sent) of the context r.p gave out.
DunderOnSend(r, ev) ==
    IF r.ph = "send" /\ ev.ctx = r.p /\ r.p >= 1 /\ ev.arg = r.sent
    THEN CASE ev.out.k = "yield" ->
                [r EXCEPT !.p = r.p - 1, !.ys = Append(r.ys, ev.out.v)]
           [] ev.out.k = "return" -> DunderLeaveBody(r, None)
           [] ev.out.k = "raise" -> DunderLeaveBody(r, ev.out.v)
    ELSE DunderDiverged

\* await ctx.__aexit__(...) in the try statement of context r.d gave out:
\* a true value in the except clause ends the handling, a false one makes
\* it `raise`, and an exception of __aexit__ replaces the one in flight;
\* the try statement of the context before is reached.
DunderOnExit(r, ev) ==
    IF r.ph = "exit" /\ ev.ctx = r.d /\ ev.arg = r.exc
    THEN LET e == CASE ev.out.k = "raise" -> ev.out.v
                    [] ev.out.k = "true" -> None
                    [] ev.out.k = "false" -> r.exc
         IN  DunderLevel([r EXCEPT !.exc = e], r.d - 1)
    ELSE DunderDiverged

DunderStep(r, ev) ==
    CASE r.ph = "diverged" -> r
      [] ev.op = "call" -> DunderOnCall(r, ev)
      [] ev.op = "to caller" -> DunderOnReturn(r, ev)
      [] ev.op = "gather" ->
            IF DunderSequential THEN r ELSE DunderOnGather(r, ev)
      [] ev.op = "__exit__" -> DunderOnExit(r, ev)
      [] ev.op = "__enter__" ->
            IF DunderSequential THEN DunderOnEnter(r, ev) ELSE DunderOnTask(r, ev)
      [] ev.op = "send" ->
            IF DunderSequential THEN DunderOnSend(r, ev) ELSE DunderOnTask(r, ev)

RECURSIVE DunderRun(_, _)
DunderRun(r, j) ==
    IF j > Len(log) THEN r ELSE DunderRun(DunderStep(r, log[j]), j + 1)

\* The reference after the history in the log.
DunderAfterLog == DunderRun(DunderInit, 1)

-----------------------------------------------------------------------------
(* C29 -- stack/async_.py does what the hand-unrolled reference does.      *)

-----------------------------------------------------------------------------
(* stack/aexit.py: patch_aexit around one asynchronous context manager     *)
(* ctx = ctxs[1], made by contextlib.asynccontextmanager.  The caller      *)
(* enters and leaves `with patch_aexit(ctx):` and, before, inside and      *)
(* after it, awaits ctx.__aenter__(), ctx.gen.asend / athrow / aclose and  *)
(* ctx.__aexit__(...), one call at a time.  A call is made in steps:       *)
(* acall.at is "gen" when it is about to operate on ctx.gen, "anext" when  *)
(* AGenWrapForAexit.athrow is about to call anext, "return" when it is     *)
(* about to return to the caller.                                          *)

\* One operation made on the asynchronous generator itself.
GenOp(op, arg, o) == [op |-> op, arg |-> arg, o |-> o]

\* A call of the caller on the context: fn with argument arg, on a
\* generator in state st, gave out after the operations ops on the
\* generator; with what the statement and the attributes of ctx were when
\* the call was made.
PatchEv(fn, st, arg, out, ops) ==
    [op |-> fn, ctx |-> 1, st |-> st, arg |-> arg, out |-> out, list |-> ops,
     patch |-> patch, gen |-> acall.org]

\* The asynchronous generator protocol of CPython 3.11: anext / asend(arg),
\* athrow(arg), aclose() with the body answering r.  "return" stands for
\* StopAsyncIteration; "value": the call returns None.  On a finished
\* generator asend raises StopAsyncIteration and athrow and aclose return.
AGenResume(i, op, arg, r) ==
    IF gst[i] = "closed"
    THEN IF op \in {"anext", "asend"} THEN [k |-> "return", v |-> None]
                                      ELSE [k |-> "value", v |-> None]
    ELSE CASE op \in {"anext", "asend"} -> GenResume(i, "send", arg, r)
           [] op = "athrow" -> GenResume(i, "throw", arg, r)
           [] op = "aclose" ->
                CASE r = "yield" -> [k |-> "raise", v |-> IgnoredGeneratorExit(i)]
                  [] r = "raise" -> [k |-> "raise", v |-> MockExc(i)]
                  [] OTHER -> [k |-> "value", v |-> None]

AGenStateAfter(i, r) ==
    IF gst[i] # "closed" /\ r = "yield" THEN "suspended" ELSE "closed"

AGenNYieldAfter(i, r) ==
    IF gst[i] # "closed" /\ r = "yield" THEN nyield[i] + 1 ELSE nyield[i]

\* contextlib._AsyncGeneratorContextManager.__aexit__(typ, value, tb) with
\* value = exc: anext(self.gen) (exc is None) or self.gen.athrow(exc) gave o.
\* An athrow that returns, with a value or with None, is a generator that
\* did not stop.
AexitOutcome(i, exc, o) ==
    IF o.k = "value" THEN [k |-> "raise", v |-> DidNotStopAfterThrow(i)]
    ELSE ExitOutcome(i, exc, o)

\* Lines 114-124: patch_aexit(ctx) up to its yield.
PatchEnter ==
    /\ impl = "patch" /\ patch = "before" /\ acall.at = "none"
    /\ patch' = "active"
    /\ ctx_aexit' = "aexit"
    /\ UNCHANGED <<impl, n, gst, nyield, pc, entered, ys, sent, exc_info, pos, snap,
                   call, thrown, where, result, ncalls, log, xvars, ctx_gen, acall>>

\* Whether an exception is in flight in the caller after its last call.
InFlight ==
    /\ log # <<>>
    /\ LET ev == log[Len(log)] IN
       \/ ev.out.k \in {"raise", "return"}
       \/ (ev.op \in {"aexit", "_org_aexit"} /\ ev.out.k = "false" /\ ev.arg # None)

\* Lines 121-124: the with statement is left, normally or by an exception:
\* the finally clause runs in both cases.
PatchExit ==
    /\ impl = "patch" /\ patch = "active" /\ acall.at = "none"
    /\ \E by \in {"normally", "exception"} :
        /\ by = "exception" => InFlight
        /\ patch' = "ended"
        /\ ctx_aexit' = "_org_aexit"
    /\ UNCHANGED <<impl, n, gst, nyield, pc, entered, ys, sent, exc_info, pos, snap,
                   call, thrown, where, result, ncalls, log, xvars, ctx_gen, acall>>

\* ctx.gen is restored without the finally clause of _wrap_gen.
GenLeftWrapped(org) == "AGenWrapForAexit"

\* Lines 131-134 (_wrap_gen): finally: ctx.gen = _org_gen
GenAfterWrap(org) == org

\* The exceptions the caller may pass to __aexit__ or athrow: the one its
\* last call raised (StopIteration stands for the StopAsyncIteration of an
\* asend on a generator that finished), or one of its own.
CallerExcs ==
    {CallerExc(ncalls + 1)}
    \cup (IF log # <<>> /\ log[Len(log)].out.k = "raise"
          THEN {log[Len(log)].out.v} ELSE {})
    \cup (IF log # <<>> /\ log[Len(log)].out.k = "return"
          THEN {StopIteration} ELSE {})

\* The caller begins a call.
StartCall(fn, arg) ==
    /\ impl = "patch" /\ acall.at = "none" /\ ncalls < MaxOps
    /\ ncalls' = ncalls + 1
    /\ acall' = [at |-> "gen", fn |-> fn, exc |-> arg, st |-> gst[1],
                 o |-> [k |-> "none", v |-> None], ops |-> <<>>, org |-> ctx_gen]

\* await ctx.__aenter__()
CallAenter ==
    /\ gst[1] = "created"
    /\ StartCall("__aenter__", None)
    /\ UNCHANGED <<impl, n, gst, nyield, pc, entered, ys, sent, exc_info, pos, snap,
                   call, thrown, where, result, log, xvars, patch, ctx_aexit, ctx_gen>>

\* await ctx.gen.asend(v)
CallAsend ==
    /\ gst[1] # "created"
    /\ StartCall("asend", SentVal(ncalls + 1))
    /\ UNCHANGED <<impl, n, gst, nyield, pc, entered, ys, sent, exc_info, pos, snap,
                   call, thrown, where, result, log, xvars, patch, ctx_aexit, ctx_gen>>

\* await ctx.gen.athrow(e)
CallAthrow ==
    /\ gst[1] # "created"
    /\ \E e \in CallerExcs : StartCall("athrow", e)
    /\ UNCHANGED <<impl, n, gst, nyield, pc, entered, ys, sent, exc_info, pos, snap,
                   call, thrown, where, result, log, xvars, patch, ctx_aexit, ctx_gen>>

\* await ctx.gen.aclose()
CallAclose ==
    /\ gst[1] # "created"
    /\ StartCall("aclose", GeneratorExit)
    /\ UNCHANGED <<impl, n, gst, nyield, pc, entered, ys, sent, exc_info, pos, snap,
                   call, thrown, where, result, log, xvars, patch, ctx_aexit, ctx_gen>>

\* await ctx.__aexit__(...): the instance attribute is called.  Lines
\* 116-118 and 129-130: the patched function puts the wrapper in ctx.gen
\* and calls the original __aexit__.
CallAexit ==
    /\ gst[1] # "created"
    /\ \E e \in {None} \cup CallerExcs : StartCall(ctx_aexit, e)
    /\ ctx_gen' = IF ctx_aexit = "aexit" THEN "AGenWrapForAexit" ELSE ctx_gen
    /\ UNCHANGED <<impl, n, gst, nyield, pc, entered, ys, sent, exc_info, pos, snap,
                   call, thrown, where, result, log, xvars, patch, ctx_aexit>>

\* The operation a call makes on ctx.gen.
OpOf(fn, exc) ==
    CASE fn = "__aenter__" -> "anext"
      [] fn \in {"aexit", "_org_aexit"} -> IF exc = None THEN "anext" ELSE "athrow"
      [] OTHER -> fn

\* The call operates on ctx.gen.  Lines 147-148, 187-188: asend, anext and
\* aclose of AGenWrapForAexit are those of the generator; line 153: so is
\* its athrow when it raises; when it returns, lines 163-164 follow.
CallOnGen ==
    /\ impl = "patch" /\ acall.at = "gen"
    /\ LET op == OpOf(acall.fn, acall.exc)
           how == IF op \in {"athrow", "aclose"} THEN "throw" ELSE "send"
       IN \E r \in Responses(1, how) :
            LET o == AGenResume(1, op, acall.exc, r) IN
            /\ gst' = [gst EXCEPT ![1] = AGenStateAfter(1, r)]
            /\ nyield' = [nyield EXCEPT ![1] = AGenNYieldAfter(1, r)]
            /\ acall' = [acall EXCEPT
                 !.ops = Append(acall.ops, GenOp(op, acall.exc, o)),
                 !.o = o,
                 !.at = IF /\ ctx_gen = "AGenWrapForAexit"
                           /\ op = "athrow"
                           /\ o.k \in {"yield", "value"}
                        THEN "anext" ELSE "return"]
    /\ UNCHANGED <<impl, n, pc, entered, ys, sent, exc_info, pos, snap, call, thrown,
                   where, result, ncalls, log, xvars, patch, ctx_aexit, ctx_gen>>

\* An athrow of the wrapper that is that of the generator.
WrapperAthrowUnchecked(exc, o1, o2) == o1

\* Lines 163-185 (AGenWrapForAexit.athrow): athrow has returned o1 and
\* anext(self._wrapped) gave o2: on StopAsyncIteration the exception given
\* to athrow is raised; another exception goes on; after a yield athrow
\* returns None.
WrapperAthrow(exc, o1, o2) ==
    CASE o2.k = "return" -> [k |-> "raise", v |-> exc]
      [] o2.k = "raise" -> o2
      [] o2.k = "yield" -> [k |-> "value", v |-> None]

\* Lines 163-164: await anext(self._wrapped)
WrapperAnext ==
    /\ impl = "patch" /\ acall.at = "anext"
    /\ \E r \in Responses(1, "send") :
        LET o2 == AGenResume(1, "anext", None, r) IN
        /\ gst' = [gst EXCEPT ![1] = AGenStateAfter(1, r)]
        /\ nyield' = [nyield EXCEPT ![1] = AGenNYieldAfter(1, r)]
        /\ acall' = [acall EXCEPT
             !.ops = Append(acall.ops, GenOp("anext", None, o2)),
             !.o = WrapperAthrow(acall.exc, acall.o, o2),
             !.at = "return"]
    /\ UNCHANGED <<impl, n, pc, entered, ys, sent, exc_info, pos, snap, call, thrown,
                   where, result, ncalls, log, xvars, patch, ctx_aexit, ctx_gen>>

\* What the call gives the caller when the operation on ctx.gen gave o.
CallOutcome(fn, exc, o) ==
    CASE fn = "__aenter__" -> EnterOutcome(1, o)
      [] fn \in {"aexit", "_org_aexit"} -> AexitOutcome(1, exc, o)
      [] OTHER -> o

\* The call returns or raises; lines 117, 133-134: leaving `with
\* _wrap_gen(ctx)` puts the generator back in ctx.gen.
CallReturn ==
    /\ impl = "patch" /\ acall.at = "return"
    /\ log' = Append(log, PatchEv(acall.fn, acall.st, acall.exc,
                                  CallOutcome(acall.fn, acall.exc, acall.o),
                                  acall.ops))
    /\ ctx_gen' = IF acall.fn = "aexit" THEN GenAfterWrap(acall.org) ELSE ctx_gen
    /\ acall' = NoCall
    /\ UNCHANGED <<impl, n, gst, nyield, pc, entered, ys, sent, exc_info, pos, snap,
                   call, thrown, where, result, ncalls, xvars, patch, ctx_aexit>>

InitPatch == impl = "patch" /\ sequential = TRUE /\ InitCommon /\ n = 1

NextPatch ==
    \/ PatchEnter
    \/ PatchExit
    \/ CallAenter
    \/ CallAsend
    \/ CallAthrow
    \/ CallAclose
    \/ CallAexit
    \/ CallOnGen
    \/ WrapperAnext
    \/ CallReturn

SpecPatch == InitPatch /\ [][NextPatch]_vars
-----------------------------------------------------------------------------
(* C21 -- under patch_aexit, __aexit__(E) after asend raised E.            *)

\* The j-th call was ctx.__aexit__(E), made through the patched attribute
\* on a generator that had finished, E being an exception an earlier asend
\* on ctx.gen raised.
AexitAfterAsendRaised(j) ==
    /\ log[j].op = "aexit"
    /\ log[j].st = "closed"
    /\ log[j].arg # None
    /\ \E a \in 1 .. j - 1 :
          /\ log[a].op = "asend"
          /\ log[a].out = [k |-> "raise", v |-> log[j].arg]

\* C21: under patch_aexit, when the generator of the context has raised E
\* from asend and ctx.__aexit__ is then called explicitly with E, the call
\* raises nothing -- no RuntimeError("generator didn't stop after
\* athrow()") -- and returns false, E is not suppressed: the caller's
\* `if not await ctx.__aexit__(...): raise` re-raises E itself.
C21_ReRaisesOriginal ==
    impl = "patch" =>
        \A j \in 1 .. Len(log) :
            AexitAfterAsendRaised(j) => log[j].out = [k |-> "false", v |-> None]

\* Inside `with patch_aexit(ctx)`, asend raised the exception of the body
\* and __aexit__ was called with it: athrow returned, anext raised
\* StopAsyncIteration, and __aexit__ has returned.
C21_Witness ==
    /\ impl = "patch"
    /\ acall.at = "none"
    /\ \E j \in 1 .. Len(log) :
          /\ AexitAfterAsendRaised(j)
          /\ log[j].arg = MockExc(1)
          /\ log[j].patch = "active"
          /\ Len(log[j].list) = 2
          /\ log[j].list[1].o.k = "value"
          /\ log[j].list[2].o.k = "return"

-----------------------------------------------------------------------------
(* C22 -- patch_aexit changes nothing outside a call of __aexit__.         *)

\* The j-th call was asend, athrow or aclose on ctx.gen and reached the
\* generator unchanged: ctx.gen was the generator, which got that one
\* operation with the caller's argument, and the caller got what it gave.
ReachedGenerator(j) ==
    /\ log[j].gen = "_org_gen"
    /\ log[j].list = <<GenOp(log[j].op, log[j].arg, log[j].out)>>

\* The j-th call was an __aexit__ that did what the original does: one
\* anext or athrow on the generator, and contextlib's reading of its result.
OriginalAexit(j) ==
    /\ log[j].op = "_org_aexit"
    /\ Len(log[j].list) = 1
    /\ log[j].list[1].op = OpOf("_org_aexit", log[j].arg)
    /\ log[j].list[1].arg = log[j].arg
    /\ log[j].out = AexitOutcome(1, log[j].arg, log[j].list[1].o)

\* C22: the asend, athrow and aclose of the caller reach the original
\* generator unchanged, also while the patch is active; ctx.gen is the
\* wrapper only while a call of the patched __aexit__ is in progress and is
\* the original generator again once that call has returned or raised; and
\* once the patch scope has ended, normally or by an exception, __aexit__
\* is and behaves as the original.
C22_NothingOutsideAexit ==
    impl = "patch" =>
        /\ \A j \in 1 .. Len(log) :
              /\ log[j].op \in {"asend", "athrow", "aclose"} => ReachedGenerator(j)
              /\ (log[j].op \in {"aexit", "_org_aexit"} /\ log[j].patch = "ended")
                    => OriginalAexit(j)
        /\ ctx_gen = "AGenWrapForAexit" => acall.fn = "aexit"
        /\ acall.at = "none" => ctx_gen = "_org_gen"
        /\ patch = "ended" => ctx_aexit = "_org_aexit"

\* While the patch was active the caller threw an exception into ctx.gen,
\* which finished, and called the patched __aexit__, which operated twice
\* on the generator; the scope has ended, and an __aexit__ call with an
\* exception made afterwards raised RuntimeError as the original does.
C22_Witness ==
    /\ impl = "patch" /\ patch = "ended" /\ acall.at = "none"
    /\ Len(log) = 4
    /\ log[2].op = "athrow" /\ log[2].patch = "active" /\ log[2].out.k = "raise"
    /\ log[3].op = "aexit" /\ log[3].patch = "active" /\ Len(log[3].list) = 2
    /\ log[3].out.k = "false"
    /\ log[4].op = "_org_aexit" /\ log[4].patch = "ended"
    /\ log[4].arg # None
    /\ log[4].out = [k |-> "raise", v |-> DidNotStopAfterThrow(1)]
-----------------------------------------------------------------------------
(* C31 -- test_patch_aexit: the patched asynchronous context manager ends  *)
(* as the synchronous one.                                                 *)

\* contextlib._GeneratorContextManager.__exit__ of the synchronous context
\* manager of the test (lines 26-57) on a generator in state st: a finished
\* generator raises StopIteration on next and the exception itself on
\* throw; one that has not finished answers o.
SyncExitOutcome(st, exc, o) ==
    ExitOutcome(1, exc,
                IF st = "closed"
                THEN IF exc = None THEN [k |-> "return", v |-> None]
                                   ELSE [k |-> "raise", v |-> exc]
                ELSE o)

\* What leaves the try statement of the test when __exit__ / __aexit__ was
\* called with exc and gave out: None stands for no error.
LeavesWith(exc, out) ==
    CASE out.k = "raise" -> out.v
      [] out.k = "true" -> None
      [] out.k = "false" -> exc

\* The exception in flight when the body of the with statement has ended.
AfterBody ==
    IF Len(log) = 3
    THEN CASE log[2].out.k = "raise" -> log[2].out.v
           [] log[2].out.k = "return" -> StopIteration
           [] OTHER -> None
    ELSE None

\* The run of the test (lines 87-111) has ended: inside `with
\* patch_aexit(ac)`, __aenter__ returned, the caller did nothing or one of
\* asend, athrow and aclose on ac.gen -- the body of the context has no
\* try statement: what is thrown in or GeneratorExit leaves it -- and
\* __aexit__ was called with the exception of the body, if any.
TestRunEnded ==
    /\ impl = "patch" /\ acall.at = "none"
    /\ Len(log) \in {2, 3}
    /\ \A j \in 1 .. Len(log) : log[j].patch = "active"
    /\ log[1].op = "__aenter__" /\ log[1].out.k = "value"
    /\ Len(log) = 3 =>
         /\ log[2].op \in {"asend", "athrow", "aclose"}
         /\ log[2].op = "athrow" => log[2].out = [k |-> "raise", v |-> log[2].arg]
         /\ log[2].op = "aclose" => log[2].out.k = "value"
    /\ log[Len(log)].op = "aexit"
    /\ log[Len(log)].arg = AfterBody

\* C31: in every run of the test -- the caller does nothing, asend, athrow
\* or aclose in the body; the context finishes, raises or yields a second
\* time after its first yield -- what leaves the with statement of the
\* asynchronous context manager under patch_aexit is what leaves that of
\* the synchronous one: no error, the same exception, StopAsyncIteration
\* for StopIteration, the same RuntimeError.
C31_SameAsSync ==
    TestRunEnded =>
        LET ev == log[Len(log)] IN
        LeavesWith(ev.arg, ev.out)
            = LeavesWith(ev.arg, SyncExitOutcome(ev.st, ev.arg, ev.list[1].o))

\* asend made the context raise, __aexit__ was called with that exception
\* and returned false: the exception of the context leaves the with
\* statement, as in the synchronous run.
C31_Witness ==
    /\ TestRunEnded
    /\ Len(log) = 3
    /\ log[2].op = "asend"
    /\ log[2].out = [k |-> "raise", v |-> MockExc(1)]
    /\ LeavesWith(log[3].arg, log[3].out) = MockExc(1)
-----------------------------------------------------------------------------
(* C32 -- under patch_aexit, a generator that handles the exception and    *)
(* yields again.                                                           *)

\* The j-th call was the patched __aexit__ with an exception, and the
\* generator, which had not finished, handled it and yielded again.
HandledAndYielded(j) ==
    /\ log[j].op = "aexit"
    /\ log[j].arg # None
    /\ log[j].st = "suspended"
    /\ log[j].list[1].op = "athrow"
    /\ log[j].list[1].o.k = "yield"

\* C32: under patch_aexit, when the generator handles the exception given
\* to __aexit__ and yields again instead of finishing, __aexit__ raises
\* RuntimeError("generator didn't stop after athrow()"), as the unpatched
\* __aexit__ and the synchronous __exit__ do.
C32_AsClaimed ==
    impl = "patch" =>
        \A j \in 1 .. Len(log) :
            HandledAndYielded(j)
                => log[j].out = [k |-> "raise", v |-> DidNotStopAfterThrow(1)]
-----------------------------------------------------------------------------
(* C33 -- the order of the __exit__ / __aexit__ calls.                     *)

\* Where in the log ctxs[i] finished entering, 0 if it has not.
EnteredAt(i) ==
    IF \E j \in 1 .. Len(log) :
          log[j].op = "__enter__" /\ log[j].ctx = i /\ log[j].out.k = "value"
    THEN CHOOSE j \in 1 .. Len(log) :
          log[j].op = "__enter__" /\ log[j].ctx = i /\ log[j].out.k = "value"
    ELSE 0

\* Where in the log the first __exit__ / __aexit__ of ctxs[i] is, 0 if
\* there is none.
ExitedAt(i) ==
    IF \E j \in 1 .. Len(log) : log[j].op = "__exit__" /\ log[j].ctx = i
    THEN CHOOSE j \in 1 .. Len(log) :
          /\ log[j].op = "__exit__" /\ log[j].ctx = i
          /\ \A k \in 1 .. j - 1 : ~(log[k].op = "__exit__" /\ log[k].ctx = i)
    ELSE 0

\* C33 as claimed: if context X finished entering before context Y
\* finished entering, the __aexit__ of Y is called before the __aexit__ of
\* X (stated for the contexts that have both been exited).
C33_AsClaimed ==
    impl \in {"sync", "async"} =>
        \A x, y \in Ctxs :
            (/\ ExitedAt(x) > 0 /\ ExitedAt(y) > 0
             /\ EnteredAt(x) > 0 /\ EnteredAt(x) < EnteredAt(y))
                => ExitedAt(y) < ExitedAt(x)

\* C33, amended: the contexts are exited in the reverse of their order in
\* ctxs, also with sequential=False: if X comes before Y in ctxs, the
\* __aexit__ of Y is called before the __aexit__ of X; with
\* sequential=True, and in stack/sync.py, that is the reverse of the order
\* in which they finished entering.
C33_ReverseOfCtxs ==
    impl \in {"sync", "async"} =>
        /\ \A x, y \in Ctxs :
              (ExitedAt(x) > 0 /\ ExitedAt(y) > 0 /\ x < y)
                  => ExitedAt(y) < ExitedAt(x)
        /\ sequential =>
              \A x, y \in Ctxs :
                  (EnteredAt(x) > 0 /\ EnteredAt(y) > 0)
                      => (x < y <=> EnteredAt(x) < EnteredAt(y))

\* sequential=False: the second context finished entering before the
\* first one, and both have been exited, the second one first.
C33_Witness ==
    /\ impl = "async" /\ ~sequential /\ n >= 2
    /\ EnteredAt(2) > 0 /\ EnteredAt(2) < EnteredAt(1)
    /\ ExitedAt(2) > 0 /\ ExitedAt(2) < ExitedAt(1)
-----------------------------------------------------------------------------
(* C34 -- gen.py: the carried error inside a round.                        *)

\* The j-th and the next entry of the log are two operations of one round
\* of gen.py, the first of them a send or a throw.
NextInRound(j) ==
    /\ log[j].op \in {"send", "throw"}
    /\ log[j + 1].op \in {"send", "throw", "close"}

\* C34: in a round of stack_gen_ctxs of gen.py, once a context has raised
\* E on send, the next context further out gets E by gen.throw and not the
\* sent value, and so on for as long as an exception is carried: a context
\* that handles it (yields or finishes) clears it, and the next one is sent
\* to again; a context that raises another exception replaces it.
C34_CarriedInRound ==
    impl = "gen" =>
        \A j \in 1 .. Len(log) - 1 :
            NextInRound(j) =>
                /\ log[j + 1].ctx < log[j].ctx
                /\ IF log[j].out.k = "raise"
                   THEN /\ log[j + 1].op = "throw"
                        /\ log[j + 1].arg = log[j].out.v
                   ELSE /\ log[j + 1].op = "send"
                        /\ ~IsExc(log[j + 1].arg)
                        /\ log[j].op = "send" => log[j + 1].arg = log[j].arg

\* In one round the third context raised on send, the second one was
\* thrown that exception and raised its own, the first one was thrown the
\* exception of the second.
C34_Witness ==
    /\ impl = "gen" /\ n = 3
    /\ \E j \in 1 .. Len(log) - 2 :
          /\ log[j].op = "send" /\ log[j].ctx = 3
          /\ log[j].out = [k |-> "raise", v |-> MockExc(3)]
          /\ log[j + 1].op = "throw" /\ log[j + 1].ctx = 2
          /\ log[j + 1].arg = MockExc(3)
          /\ log[j + 1].out = [k |-> "raise", v |-> MockExc(2)]
          /\ log[j + 2].op = "throw" /\ log[j + 2].ctx = 1
          /\ log[j + 2].arg = MockExc(2)
-----------------------------------------------------------------------------
(* gen.py and _wrap/with_.py, for what is said of the two of them.         *)

InitRounds ==
    /\ impl \in {"gen", "with"}
    /\ sequential = TRUE
    /\ InitCommon

NextRounds ==
    \/ WithEnter
    \/ GenSend
    \/ GenThrow
    \/ GenClose
    \/ WithExit
    \/ WithRaise
    \/ RoundEnterCtx
    \/ RoundYield
    \/ RoundStepCtx
    \/ RoundEnd
    \/ RoundExitCtx
    \/ RoundFinish
    \/ CmEnterCtx
    \/ CmYield
    \/ CmSendCtx
    \/ CmReturn
    \/ CmThrowCtx
    \/ CmThrowEnd
    \/ CmExitCtx
    \/ CmFinish

SpecRounds == InitRounds /\ [][NextRounds]_vars

-----------------------------------------------------------------------------
(* C35 -- the lists handed to the caller by gen.py and _wrap/with_.py.     *)

\* The caller has just been handed a list.
ListHanded == pc = "yield" /\ result.k = "list"

\* The contexts that are active for the stack: those in `entered` (gen.py
\* removes a context when its generator finishes or raises), those without
\* a stop_iteration (_wrap/with_.py).
ActiveCtxs ==
    IF impl = "gen" THEN {entered[k] : k \in 1 .. Len(entered)}
    ELSE {i \in Ctxs : stop_iteration[i] = None}

\* The contexts the carried exception was thrown into during the last call.
ThrownInLastCall ==
    LET ops == OpsOfLastCall IN
    {ops[l].ctx : l \in {m \in 1 .. Len(ops) : ops[m].op = "throw"}}

\* C35 as claimed: every list handed to the caller holds, for each context
\* that is active at that moment, exactly its most recently yielded value:
\* no value is missing and there is no entry for another context.
C35_AsClaimed ==
    (impl \in {"gen", "with"} /\ ListHanded) =>
        LET L == result.list IN
        /\ Len(L) = Cardinality(ActiveCtxs)
        /\ \A i \in ActiveCtxs : \E l \in 1 .. Len(L) : L[l] = YieldVal(i, nyield[i])

\* C35, amended.  gen.py: every entry of the list is the most recently
\* yielded value of a context that is active, no context has two entries,
\* and every active context has one except those the carried exception was
\* thrown into during the call, whose yielded value is not collected.
\* _wrap/with_.py: the list has one entry per context, on entry in the
\* order of the contexts and after a send in the reverse order: the most
\* recently yielded value of a context that is active, None for one that
\* has finished.
C35_LatestValues ==
    (impl \in {"gen", "with"} /\ ListHanded) =>
        LET L == result.list IN
        IF impl = "gen"
        THEN /\ \A l \in 1 .. Len(L) :
                   /\ L[l].src \in ActiveCtxs
                   /\ L[l] = YieldVal(L[l].src, nyield[L[l].src])
                   /\ \A m \in 1 .. l - 1 : L[m].src # L[l].src
             /\ \A i \in ActiveCtxs \ ThrownInLastCall :
                   \E l \in 1 .. Len(L) : L[l].src = i
        ELSE /\ Len(L) = n
             /\ \A i \in Ctxs :
                   L[IF log[LastCallIdx].st = "enter" THEN i ELSE n + 1 - i]
                       = IF i \in ActiveCtxs THEN YieldVal(i, nyield[i]) ELSE None

\* gen.py: the caller threw an exception in, the innermost of two contexts
\* handled it and yielded, the other one was sent to and yielded: the list
\* has the value of the outer one only, and both are active.
C35_Witness ==
    /\ impl = "gen" /\ n = 2 /\ ListHanded
    /\ ActiveCtxs = {1, 2}
    /\ ThrownInLastCall = {2}
    /\ result.list = <<YieldVal(1, nyield[1])>>
-----------------------------------------------------------------------------
(* C36 -- _wrap/with_.py: gen.throw(T) on the combined generator of a hook. *)

\* The caller's last call was a throw on the suspended generator of the hook
\* and has ended.
ThrowEnded ==
    /\ impl = "with" /\ call = "none"
    /\ LastCallIdx > 0 /\ log[LastCallIdx].st = "throw"
    /\ LastCallIdx + 1 < Len(log)

\* The gen.throw calls of line 84 and the __exit__ calls of the ExitStack of
\* line 32 made during the caller's last call, in the order they were made.
ThrowPass == SelectSeq(OpsOfLastCall, LAMBDA e : e.op = "throw")
ExitPass == SelectSeq(OpsOfLastCall, LAMBDA e : e.op = "__exit__")

\* What the calls ops raised, in the order of the calls.
RaisedBy(ops) ==
    LET rs == SelectSeq(ops, LAMBDA e : e.out.k = "raise")
    IN  [l \in 1 .. Len(rs) |-> rs[l].out.v]

\* T was thrown once into every implementation that had not finished, in the
\* order of the implementations, and into no other.
ThrownIntoUnfinished(T) ==
    LET th == ThrowPass IN
    /\ Ascending(CtxOf(th))
    /\ {th[l].ctx : l \in 1 .. Len(th)} = {i \in Ctxs : stop_iteration[i] = None}
    /\ \A l \in 1 .. Len(th) : th[l].arg = T /\ th[l].st # "closed"

\* The exception _support_gen raises for the throw of T: the group when an
\* implementation raised, T itself otherwise.
LeavesSupportGen(T) ==
    IF RaisedBy(ThrowPass) # <<>> THEN RaisedGroup ELSE T

\* C36 as claimed: gen.throw(T) throws T into every implementation that has
\* not yet finished; if at least one of them raises, the caller gets a
\* BaseExceptionGroup of exactly the exceptions they raised, in implementation
\* order; if none raises, the caller gets T itself.
C36_AsClaimed ==
    ThrowEnded =>
        LET T == log[LastCallIdx].arg IN
        /\ ThrownIntoUnfinished(T)
        /\ raised = RaisedBy(ThrowPass)
        /\ result = ResRaise(LeavesSupportGen(T))

\* C36 (amended): gen.throw(T) throws T into every implementation that has
\* not yet finished, in implementation order; _support_gen then raises a
\* BaseExceptionGroup of exactly the exceptions they raised, in that order, if
\* at least one raised, and T itself if none did.  That exception is offered
\* to the contexts by the ExitStack of _cm_gen, and the caller gets it unless
\* an implementation that handled T by yielding again, and so is still
\* active, suppresses or replaces it when it is exited.
C36_ThrowGroup ==
    ThrowEnded =>
        LET T == log[LastCallIdx].arg
            th == ThrowPass
            ex == ExitPass
        IN  /\ ThrownIntoUnfinished(T)
            /\ raised = RaisedBy(th)
            /\ Len(ex) = n /\ ex[1].arg = LeavesSupportGen(T)
            /\ result # ResRaise(LeavesSupportGen(T)) =>
                  \E l \in 1 .. Len(ex), m \in 1 .. Len(th) :
                      /\ ex[l].out.k \in {"true", "raise"}
                      /\ th[m].ctx = ex[l].ctx /\ th[m].out.k = "yield"

\* Three implementations: the third finished on a send; T was then thrown
\* into the first, which handled it and finished, and into the second, which
\* raised; the caller got the group of the one exception raised.
C36_Witness ==
    /\ ThrowEnded /\ n = 3
    /\ stop_iteration[3] # None
    /\ CtxOf(ThrowPass) = <<1, 2>>
    /\ ThrowPass[1].out.k = "return" /\ ThrowPass[2].out.k = "raise"
    /\ raised = <<MockExc(2)>>
    /\ result = ResRaise(RaisedGroup)

-----------------------------------------------------------------------------
(* C37 -- stack/sync.py: what holds while the caller is in the with block. *)

\* Control is with the caller inside the with block and the generator of the
\* stack is suspended at line 103 or line 110.
CallerInWith ==
    /\ impl = "sync" /\ where = "inwith" /\ call = "none"
    /\ pc \in {"yield1", "yield2"}

\* Every input context has been entered, none has been exited and none is
\* exhausted.
AllEnteredNoneLeft ==
    /\ entered = [i \in 1 .. n |-> i]
    /\ \A j \in 1 .. Len(log) : log[j].op # "__exit__"
    /\ \A i \in Ctxs : gst[i] = "suspended" /\ nyield[i] >= 1

\* The values of the list L.
ValuesIn(L) == {L[l] : l \in 1 .. Len(L)}

\* Every list handed to the caller has exactly one value per input context.
OneValuePerCtx ==
    \A j \in 1 .. Len(log) :
        (log[j].op = "to caller" /\ log[j].out.k = "list") =>
            /\ Len(log[j].list) = n
            /\ {log[j].list[l].src : l \in 1 .. n} = Ctxs

\* The value a context yielded when sent to at log[j] was collected in a
\* round that another context ended: the call gave the caller no list.
InEndedRound(j) ==
    /\ log[j].op = "send" /\ log[j].out.k = "yield"
    /\ NextRet(j) <= Len(log) /\ log[NextRet(j)].out.k # "list"

\* C37: in stack_gen_ctxs of stack/sync.py, whenever control is with the
\* caller inside the with block and the stack is still suspended, every
\* input context has been entered, none has been exited and none is
\* exhausted; every list handed to the caller has exactly one value per
\* input context, and the values collected in a round that another context
\* ends are never delivered.
C37_WhileInWith ==
    impl = "sync" =>
        /\ CallerInWith => AllEnteredNoneLeft
        /\ OneValuePerCtx
        /\ \A j, m \in 1 .. Len(log) :
              (InEndedRound(j) /\ log[m].op = "to caller") =>
                  log[j].out.v \notin ValuesIn(log[m].list)

\* Two contexts: the caller was in the with block with the two values of the
\* first send; in the second send context 2 yielded once more and context 1
\* finished, and that last value of context 2 reached no list.
C37_Witness ==
    /\ impl = "sync" /\ n = 2 /\ ncalls = 2 /\ call = "none" /\ pc = "done"
    /\ \E j, m \in 1 .. Len(log) :
          /\ j < m /\ log[j] = RetEv("send", ResList(<<YieldVal(2, 2), YieldVal(1, 2)>>))
          /\ InEndedRound(m) /\ log[m].out.v = YieldVal(2, 3)
          /\ log[m + 1].op = "send" /\ log[m + 1].ctx = 1 /\ log[m + 1].out.k = "return"
    /\ result = ResRaise(StopIteration)

-----------------------------------------------------------------------------
(* C38 -- stack/sync.py, stack/async_.py: __exit__ raises during an        *)
(* error-free exit.                                                        *)

\* log[j] is an __exit__ call that raised during an error-free exit: it was
\* given no exception, as was every __exit__ call before it, none of which
\* raised.
RaisedInErrorFreeExit(j) ==
    /\ log[j].op = "__exit__" /\ log[j].arg = None /\ log[j].out.k = "raise"
    /\ \A m \in 1 .. j - 1 :
          log[m].op = "__exit__" => log[m].arg = None /\ log[m].out.k = "false"

\* The exception carried after the __exit__ calls xs, e being the one
\* carried before them.
RECURSIVE CarriedAfter(_, _)
CarriedAfter(e, xs) ==
    IF xs = <<>> THEN e
    ELSE CarriedAfter(ExcInfoAfterExit(e, xs[1].out), Tail(xs))

\* C38: during an error-free exit of the stack, if the __exit__ of some
\* context raises, that error becomes the carried error: every context
\* further out is still exited exactly once, from the inside outwards, each
\* offered what is carried when its turn comes (the error itself for the
\* first of them), and the caller receives whatever error survives the
\* outermost context.
C38_ExitRaises ==
    (impl \in {"sync", "async"}) =>
    \A j \in 1 .. Len(log) :
        RaisedInErrorFreeExit(j) =>
            LET e == log[j].out.v
                xs == ExitsAfter(j)
                r == NextRet(j)
            IN  /\ IsPrefix(CtxOf(xs), Down(log[j].ctx - 1))
                /\ \A l \in 1 .. Len(xs) :
                      xs[l].arg = CarriedAfter(e, SubSeq(xs, 1, l - 1))
                /\ r <= Len(log) =>
                      /\ CtxOf(xs) = Down(log[j].ctx - 1)
                      /\ log[r] = RetEv(log[r].st,
                            IF IsExc(CarriedAfter(e, xs))
                            THEN OnRaise(log[r].st, CarriedAfter(e, xs))
                            ELSE OnReturn(log[r].st))

\* Three contexts, the with block ended without error: context 3 finished,
\* context 2 yielded again in its __exit__, which raised RuntimeError;
\* context 1 was then exited with that error and let it go on, and the
\* caller received it.
C38_Witness ==
    /\ n = 3 /\ pc = "done" /\ call = "none" /\ where = "after"
    /\ \E j \in 1 .. Len(log) :
          /\ RaisedInErrorFreeExit(j) /\ log[j].ctx = 2
          /\ log[j].out.v = DidNotStop(2)
          /\ Len(ExitsAfter(j)) = 1
          /\ ExitsAfter(j)[1].ctx = 1 /\ ExitsAfter(j)[1].arg = DidNotStop(2)
          /\ ExitsAfter(j)[1].out.k = "false"
    /\ result = ResRaise(DidNotStop(2))

=============================================================================
